---- MODULE Spec2Model ----
(***************************************************************************)
(* A model of the GRDDL engine of raptor (src/src/raptor_grddl.c) and of   *)
(* the parts of the parser layer it uses (src/src/raptor_parse.c).         *)
(*                                                                         *)
(* The parser handles that are alive form a chain: chain[1] is the handle  *)
(* the user constructed (the depth-0 GRDDL parser) and chain[k+1] is the   *)
(* internal_parser of chain[k].  The calls of raptor_grddl_parse_chunk     *)
(* with is_end set that are running form the stack: stack[k] is the        *)
(* activation running on chain[k].  The documents, stylesheets and         *)
(* triples the outside world delivers are chosen when they are delivered.  *)
(***************************************************************************)
EXTENDS Integers, Sequences, FiniteSets, TLC

VARIABLES chain, stack, phase, fetched, ev, sheet, parsers, regev, rdf_parser, hev,
          nstack, qev

vars == <<chain, stack, phase, fetched, ev, sheet, parsers, regev, rdf_parser, hev,
          nstack, qev>>

\* The state of the engine, and the state the engine's steps leave alone:
\* sheet is the stylesheet of one run of raptor_grddl_run_grddl_transform_doc
\* looked at on its own, parsers is the list of registered parser factories
\* and regev the last operation on that list, rdf_parser is one parser
\* handle looked at on its own and hev the last operation on it, nstack is
\* a namespace stack and qev the last operation of raptor_qname.c.
engine_vars == <<chain, stack, phase, fetched, ev>>
registry_vars == <<parsers, regev>>
handle_vars == <<rdf_parser, hev>>
qname_vars == <<nstack, qev>>
other_vars == <<sheet, parsers, regev, rdf_parser, hev, nstack, qev>>
sheet_others == <<engine_vars, registry_vars, handle_vars, qname_vars>>
registry_others == <<engine_vars, sheet, handle_vars, qname_vars>>
handle_others == <<engine_vars, sheet, registry_vars, qname_vars>>
qname_others == <<engine_vars, sheet, registry_vars, handle_vars>>

NULL == "NULL"

(***************************************************************************)
(* Bounds of the model.                                                    *)
(***************************************************************************)
MaxDepth == 3
MaxProfiles == 2
MaxTransforms == 2
MaxTriples == 2
MaxApplied == 3
MaxIds == 2

(***************************************************************************)
(* The outside world: URIs, documents, stylesheets, triples.               *)
(***************************************************************************)
BaseURI == "D"
DocURIs == {"N", "P"}
DataView == "http://www.w3.org/2003/g/data-view"
FetchURIs == DocURIs \cup {DataView}
Other(u) == IF u = "N" THEN "P" ELSE "N"
TransformURIs == <<"a", "b", "c">>
ProfileURIs == <<"P", "N">>

XHTML == "http://www.w3.org/1999/xhtml"

grddl_namespace_uris_ignore_list ==
  { "http://www.w3.org/1999/xhtml",
    "http://www.w3.org/1999/02/22-rdf-syntax-ns#",
    "http://www.w3.org/2001/XMLSchema" }

namespace_transformation_uri == "http://www.w3.org/2003/g/data-view#namespaceTransformation"
profile_transformation_uri == "http://www.w3.org/2003/g/data-view#profileTransformation"

SeqToSet(s) == {s[i] : i \in 1..Len(s)}

Prefixes(s, n) == {SubSeq(s, 1, m) : m \in 0..(IF n < Len(s) THEN n ELSE Len(s))}

\* A parsed XML document, as far as the engine looks at it: whether a DOM
\* exists, the namespace URI of the root element, the tokens of
\* /html:html/html:head/@profile, and the URIs the match table finds.
Doc(dom, ns, profiles, transforms) ==
  [dom |-> dom, ns |-> ns, profiles |-> profiles, transforms |-> transforms]

NoDoc == Doc(FALSE, NULL, <<>>, <<>>)

\* The values of the profile attribute of an XHTML head, as token lists.
ProfileLists == Prefixes(ProfileURIs, MaxProfiles) \cup {<<DataView>>}

\* The documents the user may feed to the depth-0 parser.  The XPath
\* /html:html/html:head/@profile selects something only when the root
\* element is html in the XHTML namespace.
TopDocs ==
  {NoDoc}
  \cup { Doc(TRUE, ns, <<>>, tr) :
           ns \in {NULL, "N"},
           tr \in Prefixes(TransformURIs, MaxTransforms) }
  \cup { Doc(TRUE, XHTML, pr, tr) :
           pr \in ProfileLists,
           tr \in Prefixes(TransformURIs, MaxTransforms) }

\* The documents a fetch of namespace or profile URI u may deliver.
FetchedDocs(u) ==
  IF u = DataView
  THEN { Doc(TRUE, NULL, <<>>, <<>>) }
  ELSE { Doc(TRUE, NULL, <<>>, <<>>),
         Doc(TRUE, Other(u), <<>>, <<>>),
         Doc(TRUE, u, <<>>, <<"c">>) }

\* The statements an inner parser may emit.
Triple(s, st, p, pt, o, ot) ==
  [subject |-> s, subject_type |-> st, predicate |-> p, predicate_type |-> pt,
   object |-> o, object_type |-> ot]

Triples ==
  { Triple("N", "RESOURCE", namespace_transformation_uri, "RESOURCE", "c", "RESOURCE"),
    Triple("N", "RESOURCE", profile_transformation_uri, "RESOURCE", "c", "RESOURCE"),
    Triple("P", "RESOURCE", profile_transformation_uri, "RESOURCE", "c", "RESOURCE"),
    Triple("P", "RESOURCE", profile_transformation_uri, "RESOURCE", "c", "LITERAL"),
    Triple("P", "RESOURCE", "http://purl.org/dc/elements/1.1/title", "RESOURCE", "c", "RESOURCE") }

NoTriple == Triple(NULL, NULL, NULL, NULL, NULL, NULL)

\* What applying one stylesheet can come to (raptor_grddl_run_grddl_transform_uri
\* and raptor_grddl_run_grddl_transform_doc): the fetch of the stylesheet fails,
\* the stylesheet does not compile, it cannot be applied, its output is empty,
\* or the output is serialized and raptor_guess_parser_name answers with a
\* parser name (or with no name).
ParserNames == {"rdfxml"}
GuessResults == ParserNames \cup {"grddl", NULL}
TransformOutcomes ==
  {"fetch_failed", "sheet_error", "apply_error", "empty"} \cup GuessResults

(***************************************************************************)
(* Parser handles.                                                         *)
(***************************************************************************)
USER_DATA == 0
NO_DATA == -1

\* raptor_new_parser: a zeroed handle and a zeroed context, then the
\* factory's init.  own is the sequence raptor_grddl_parse_init allocates
\* for visited_uris; visited_uris is the index of the handle whose own
\* sequence this handle points to.  appended and applied record the URIs
\* pushed onto doc_transform_uris and taken from it, and pushed counts (up
\* to 2) the URIs raptor_grddl_relay_triples pushed since the last one was
\* taken.  On the user's handle, issued is the set of the numbers the
\* default generator of any handle has given out, and prefix_frees counts
\* (up to 2) the calls of RAPTOR_FREE on the prefix the user set.
NewParser(name, k) ==
  [ name |-> name,
    failed |-> FALSE,
    no_net |-> FALSE,
    base_uri |-> NULL,
    user_data |-> NO_DATA,
    statement_handler |-> NULL,
    ctxt |-> FALSE,
    ended |-> FALSE,
    doc |-> NoDoc,
    root_ns_uri |-> NULL,
    profile_uris |-> <<>>,
    doc_transform_uris |-> <<>>,
    internal_parser_name |-> NULL,
    saved_user_data |-> NO_DATA,
    saved_statement_handler |-> NULL,
    visited_uris |-> k,
    grddl_depth |-> 0,
    own |-> [items |-> <<>>, frees |-> 0],
    appended |-> <<>>,
    applied |-> <<>>,
    pushed |-> 0,
    default_generate_id_handler_base |-> 0,
    default_generate_id_handler_prefix |-> NULL,
    issued |-> {},
    prefix_frees |-> 0 ]

\* raptor_parser_copy_user_state: the fields the model keeps.
raptor_parser_copy_user_state(to_parser, from_parser) ==
  [to_parser EXCEPT !.user_data = from_parser.user_data,
                    !.statement_handler = from_parser.statement_handler,
                    !.default_generate_id_handler_base =
                       from_parser.default_generate_id_handler_base,
                    !.default_generate_id_handler_prefix =
                       from_parser.default_generate_id_handler_prefix]

(***************************************************************************)
(* The visited-URI sequence.                                               *)
(***************************************************************************)
\* The sequence handle k points to.
VisitedOf(ch, k) == ch[ch[k].visited_uris].own

\* raptor_grddl_seen_uri: the results a call can give.  Reading a sequence
\* that has been freed is undefined: either answer can come back.
raptor_grddl_seen_uri(ch, k, uri) ==
  IF VisitedOf(ch, k).frees > 0 THEN BOOLEAN
  ELSE {uri \in SeqToSet(VisitedOf(ch, k).items)}

\* raptor_grddl_done_uri.  A push onto a freed sequence leaves nothing the
\* model can rely on, so a freed sequence keeps no items.
raptor_grddl_done_uri(ch, k, uri) ==
  IF VisitedOf(ch, k).frees > 0 \/ uri \in SeqToSet(VisitedOf(ch, k).items)
  THEN ch
  ELSE [ch EXCEPT ![ch[k].visited_uris].own.items = Append(@, uri)]

\* raptor_free_sequence of the sequence handle k points to.
FreeVisited(ch, k) ==
  [ch EXCEPT ![ch[k].visited_uris].own =
     [items |-> <<>>, frees |-> IF @.frees < 2 THEN @.frees + 1 ELSE 2]]

\* raptor_grddl_parser_add_parent on child c with parent p.
raptor_grddl_parser_add_parent(ch, c, p) ==
  LET ch1 == IF ch[c].visited_uris # NO_DATA THEN FreeVisited(ch, c) ELSE ch
  IN  [ch1 EXCEPT ![c].visited_uris = ch[p].visited_uris,
                  ![c].grddl_depth = ch[p].grddl_depth + 1]

(***************************************************************************)
(* The internal parser and the relay.                                      *)
(***************************************************************************)
\* raptor_free_parser of the handles ch[from], ch[from + 1], ...: each
\* terminate frees the internal parser below, and lines 523-524 free the
\* prefix of every handle that has one, which is the buffer of the user's
\* handle (raptor_parser_copy_user_state copies the pointer).
FreeHandles(ch, from) ==
  LET n == Cardinality({ j \in from..Len(ch) :
                           ch[j].default_generate_id_handler_prefix # NULL })
      kept == SubSeq(ch, 1, from - 1)
  IN IF kept = <<>> THEN kept
     ELSE [kept EXCEPT ![1].prefix_frees = IF @ + n < 2 THEN @ + n ELSE 2]

\* raptor_grddl_ensure_internal_parser on handle k.  created says whether
\* raptor_new_parser(parser_name) gives a parser when one is constructed.
\* raptor_free_parser of the old internal parser frees the handles below it
\* too (raptor_grddl_parse_terminate frees its own internal parser); the
\* visited sequence is not freed there, the freed handles having depth > 0.
raptor_grddl_ensure_internal_parser(ch, k, parser_name, created, relay) ==
  LET h == ch[k]
      differs == h.internal_parser_name = NULL \/ h.internal_parser_name # parser_name
      ch1 == [FreeHandles(ch, k + 1) EXCEPT ![k].internal_parser_name = NULL]
      ch2 == Append([ch1 EXCEPT ![k].internal_parser_name = parser_name,
                                ![k].saved_user_data = h.user_data,
                                ![k].saved_statement_handler = h.statement_handler],
                    raptor_parser_copy_user_state(NewParser(parser_name, k + 1), h))
      ch3 == IF differs THEN ch2 ELSE ch
  IN  IF differs /\ ~created
      THEN [chain |-> ch1, ret |-> 1, constructed |-> FALSE]
      ELSE [chain |-> IF relay = 1
                      THEN [ch3 EXCEPT ![k + 1].user_data = k,
                                       ![k + 1].statement_handler = "relay"]
                      ELSE [ch3 EXCEPT ![k + 1].user_data = ch3[k].saved_user_data,
                                       ![k + 1].statement_handler = ch3[k].saved_statement_handler],
            ret |-> 0, constructed |-> differs]

\* raptor_start_parse on handle k.
raptor_start_parse(ch, k, uri) == [ch EXCEPT ![k].base_uri = uri]

\* The loop of raptor_grddl_relay_triples over profile_uris from C index i:
\* the URIs it pushes onto doc_transform_uris.
RECURSIVE RelayLoop(_, _, _, _)
RelayLoop(profile_uris, i, predicate_uri, statement) ==
  IF i >= Len(profile_uris) THEN <<>>
  ELSE LET profile_uri == profile_uris[i + 1]
           pred == IF i = 1 THEN profile_transformation_uri ELSE predicate_uri
           hit == /\ profile_uri # NULL
                  /\ statement.subject = profile_uri
                  /\ statement.predicate = pred
       IN  (IF hit THEN <<statement.object>> ELSE <<>>)
           \o RelayLoop(profile_uris, i + 1, pred, statement)

\* A relay that does not look at the types of the three terms.
RelayPushesAnyType(profile_uris, statement) ==
  RelayLoop(profile_uris, 0, namespace_transformation_uri, statement)

\* The URIs raptor_grddl_relay_triples pushes for one statement.
RelayPushes(profile_uris, statement) ==
  IF /\ statement.subject_type = "RESOURCE"
     /\ statement.predicate_type = "RESOURCE"
     /\ statement.object_type = "RESOURCE"
  THEN RelayLoop(profile_uris, 0, namespace_transformation_uri, statement)
  ELSE <<>>

\* A relay that keeps the statements it matched to itself.
RelayForwardsUnmatched(g, statement) ==
  g.saved_statement_handler # NULL /\ RelayPushes(g.profile_uris, statement) = <<>>

\* Whether raptor_grddl_relay_triples sends the statement on to the saved
\* handler of GRDDL parser g.
RelayForwards(g, statement) == g.saved_statement_handler # NULL

\* A call of a statement handler with its user data: the user's handler, or
\* raptor_grddl_relay_triples with the GRDDL parser as user data.  out is
\* what reaches the user's handler.
RECURSIVE CallStatementHandler(_, _, _, _)
CallStatementHandler(ch, handler, user_data, statement) ==
  IF handler = "user"
  THEN [chain |-> ch, out |-> <<[user_data |-> user_data, statement |-> statement]>>]
  ELSE IF handler = "relay"
  THEN LET g == ch[user_data]
           pushed == RelayPushes(g.profile_uris, statement)
           ch1 == [ch EXCEPT ![user_data].doc_transform_uris = @ \o pushed,
                             ![user_data].appended = @ \o pushed,
                             ![user_data].pushed =
                                IF @ + Len(pushed) < 2 THEN @ + Len(pushed) ELSE 2]
       IN  IF RelayForwards(g, statement)
           THEN CallStatementHandler(ch1, g.saved_statement_handler,
                                     g.saved_user_data, statement)
           ELSE [chain |-> ch1, out |-> <<>>]
  ELSE [chain |-> ch, out |-> <<>>]

(***************************************************************************)
(* raptor_grddl_parse_chunk, up to the start of discovery.                 *)
(***************************************************************************)
\* A chunk that marks the base URI before it looks at is_end.
FeedXMLMarks(ch, k, doc) ==
  raptor_grddl_done_uri(IF ~ch[k].ctxt THEN [ch EXCEPT ![k].ctxt = TRUE, ![k].doc = doc]
                        ELSE ch, k, ch[k].base_uri)

\* The XML push parser of handle k takes the bytes of document doc: the
\* first bytes create the parser context; a context that has seen the end
\* of its document takes no more bytes, and its DOM stays.
FeedXML(ch, k, doc) ==
  IF ~ch[k].ctxt THEN [ch EXCEPT ![k].ctxt = TRUE, ![k].doc = doc]
  ELSE ch

\* Lines 901-924 with is_end set: the context is created if there is none,
\* told the end, and the base URI is marked visited.
ChunkEnd(ch, k, doc) ==
  LET ch1 == [FeedXML(ch, k, doc) EXCEPT ![k].ended = TRUE]
  IN  raptor_grddl_done_uri(ch1, k, ch1[k].base_uri)

\* The sentinel raptor_grddl_run_xpath_match compares a profile token with.
MatchedSentinel == "http://www.w3.org/2003/g/data-view'"

\* A match that gives the tokens of the attribute last to first.
RunXpathMatchReversed(tokens) ==
  [ k \in 1..Len(tokens) |-> tokens[Len(tokens) + 1 - k] ]

\* raptor_grddl_run_xpath_match on /html:html/html:head/@profile with
\* MATCH_IS_VALUE_LIST | MATCH_IS_PROFILE, from the tokens of the attribute.
raptor_grddl_run_xpath_match_profile(tokens) ==
  SelectSeq(tokens, LAMBDA t : t # MatchedSentinel)

(***************************************************************************)
(* State.                                                                  *)
(***************************************************************************)
Frame(pc, i, n, result, ret) ==
  [pc |-> pc, i |-> i, n |-> n, result |-> result, ret |-> ret]

\* What the last step did that the outside can see.
EvNone ==
  [ op |-> "none", uri |-> NULL, net |-> <<>>, errors |-> 0, warnings |-> 0,
    fed |-> NULL, guess |-> "none", constructed |-> FALSE, emitted |-> NoTriple,
    delivered |-> <<>>, genid |-> 0, ret |-> -1 ]

\* No stylesheet is being looked at.
NoSheet == [pc |-> "none"]

\* No parser handle is being looked at on its own.
NoHandle == [magic |-> "none"]
HevNone == [op |-> "none"]

\* No operation of raptor_qname.c has been made.
QevNone == [op |-> "none"]

\* No operation on the list of parser factories has been made.
RegNone == [op |-> "none", name |-> NULL, alias |-> NULL, fatal |-> FALSE, found |-> 0]

Init ==
  /\ \E nn \in BOOLEAN, prefix \in {NULL, "prefix"} :
       chain = << [NewParser("grddl", 1) EXCEPT !.no_net = nn,
                                                !.user_data = USER_DATA,
                                                !.statement_handler = "user",
                                                !.default_generate_id_handler_prefix = prefix,
                                                !.base_uri = BaseURI] >>
  /\ stack = <<>>
  /\ phase = "ready"
  /\ fetched = [u \in FetchURIs |-> 0]
  /\ ev = EvNone
  /\ sheet = NoSheet
  /\ parsers = <<>>
  /\ regev = RegNone
  /\ rdf_parser = NoHandle
  /\ hev = HevNone
  /\ nstack = <<>>
  /\ qev = QevNone

d == Len(stack)

top == stack[d]

Bump(n) == IF n < 2 THEN n + 1 ELSE 2

(***************************************************************************)
(* raptor_grddl_run_recursive.                                             *)
(***************************************************************************)
\* raptor_grddl_fetch_uri refuses when the handle it is given has NO_NET set.
FetchRefused(parser) == parser.no_net

\* A caller that gives up when raptor_grddl_run_recursive returns non-zero.
AfterRecursiveStops(cont, keeps_ret, r) ==
  IF r # 0 THEN [cont EXCEPT !.pc = "return", !.ret = r]
  ELSE IF keeps_ret THEN [cont EXCEPT !.ret = r] ELSE cont

\* What the caller does with the result r of raptor_grddl_run_recursive:
\* line 967 drops it, line 1012 assigns it to ret; both go on to cont.
AfterRecursive(cont, keeps_ret, r) ==
  IF keeps_ret THEN [cont EXCEPT !.ret = r] ELSE cont

\* raptor_grddl_run_recursive(chain[d], uri), called from the activation on
\* top of the stack with the handles as in ch.  cont is the caller's frame
\* after the call, and keeps_ret says that the caller assigns the result to
\* ret.  A URI that is not seen gets the internal "grddl" parser, which is
\* made a child, started on the URI and fed what the fetch delivers; its
\* call with is_end set then runs as a new activation.
RunRecursive(ch, uri, cont, keeps_ret) ==
  LET back(r) == AfterRecursive(cont, keeps_ret, r)
  IN
  \E seen \in raptor_grddl_seen_uri(ch, d, uri) :
    IF seen
    THEN /\ chain' = ch
         /\ stack' = [stack EXCEPT ![d] = back(0)]
         /\ ev' = [EvNone EXCEPT !.op = "recursive_seen", !.uri = uri, !.ret = 0]
         /\ UNCHANGED <<phase, fetched>>
    ELSE
      /\ d < MaxDepth
      /\ LET e   == raptor_grddl_ensure_internal_parser(ch, d, "grddl", TRUE, 1)
             c   == d + 1
             ch2 == raptor_grddl_parser_add_parent(e.chain, c, d)
             ch3 == raptor_start_parse(ch2, c, uri)
             evr == [EvNone EXCEPT !.op = "recursive", !.uri = uri,
                                   !.constructed = e.constructed]
         IN
         IF FetchRefused(ch3[c])
         THEN /\ chain' = ch3
              /\ stack' = [stack EXCEPT ![d] = back(1)]
              /\ ev' = [evr EXCEPT !.ret = 1]
              /\ UNCHANGED <<phase, fetched>>
         ELSE
           \/ \* raptor_www_fetch fails
              /\ chain' = ch3
              /\ stack' = [stack EXCEPT ![d] = back(1)]
              /\ ev' = [evr EXCEPT !.net = <<uri>>, !.errors = 1, !.ret = 1]
              /\ UNCHANGED <<phase, fetched>>
           \/ \* the bytes arrive, then raptor_parse_chunk(child, NULL, 0, 1)
              \E doc \in FetchedDocs(uri) :
                LET ch4 == ChunkEnd(FeedXML(ch3, c, doc), c, doc)
                IN  /\ chain' = ch4
                    /\ fetched' = [fetched EXCEPT ![uri] = Bump(@)]
                    /\ phase' = phase
                    /\ IF ch4[c].doc.dom
                       THEN /\ stack' = Append([stack EXCEPT ![d] = back(0)],
                                               Frame("rootns", 0, 0, <<>>, 0))
                            /\ ev' = [evr EXCEPT !.net = <<uri>>]
                       ELSE /\ stack' = [stack EXCEPT ![d] = back(0)]
                            /\ ev' = [evr EXCEPT !.net = <<uri>>, !.errors = 1, !.ret = 0]

(***************************************************************************)
(* What the user does with the depth-0 parser.                             *)
(***************************************************************************)
\* raptor_parse_chunk(parser, s, len, 0), lines 901-922: the first bytes of
\* the document create the context, later bytes are passed to it.
ParseChunk ==
  /\ phase = "ready"
  /\ \E doc \in TopDocs : chain' = FeedXML(chain, 1, doc)
  /\ ev' = [EvNone EXCEPT !.op = "chunk", !.ret = 0]
  /\ UNCHANGED <<stack, phase, fetched>>
  /\ UNCHANGED other_vars

\* raptor_parse_chunk(parser, s, len, 1): lines 901-931, then discovery.
ParseChunkEnd ==
  /\ phase = "ready"
  /\ \E doc \in IF chain[1].ctxt THEN {chain[1].doc} ELSE TopDocs :
       LET ch1 == ChunkEnd(chain, 1, doc)
       IN  /\ chain' = ch1
           /\ IF ch1[1].doc.dom
              THEN /\ stack' = <<Frame("rootns", 0, 0, <<>>, 0)>>
                   /\ phase' = "running"
                   /\ ev' = [EvNone EXCEPT !.op = "chunk_end"]
              ELSE /\ stack' = <<>>
                   /\ phase' = "done"
                   /\ ev' = [EvNone EXCEPT !.op = "chunk_end", !.errors = 1, !.ret = 1]
  /\ UNCHANGED fetched
  /\ UNCHANGED other_vars

\* raptor_free_parser(parser): raptor_grddl_parse_terminate frees the
\* internal parser and, at depth 0, the visited sequence; then the prefix
\* of the handle is freed.  What is left in chain[1] is the record of what
\* was freed.
FreeParser ==
  /\ phase \in {"ready", "done"}
  /\ LET ch1 == FreeHandles(IF chain[1].grddl_depth = 0 THEN FreeVisited(chain, 1)
                             ELSE chain, 2)
     IN chain' = IF ch1[1].default_generate_id_handler_prefix # NULL
                 THEN [ch1 EXCEPT ![1].prefix_frees = IF @ < 2 THEN @ + 1 ELSE 2]
                 ELSE ch1
  /\ phase' = "freed"
  /\ ev' = [EvNone EXCEPT !.op = "free"]
  /\ UNCHANGED <<stack, fetched>>
  /\ UNCHANGED other_vars

(***************************************************************************)
(* Discovery (lines 934-1049).                                             *)
(***************************************************************************)
\* Lines 934-970: the root namespace URI and its recursive processing.
RootNs ==
  /\ phase = "running"
  /\ top.pc = "rootns"
  /\ LET ns_uri_string ==
           IF chain[d].doc.ns \in grddl_namespace_uris_ignore_list
           THEN NULL ELSE chain[d].doc.ns
         cont == [top EXCEPT !.pc = "profile_match"]
     IN  IF ns_uri_string # NULL
         THEN RunRecursive([chain EXCEPT ![d].root_ns_uri = ns_uri_string],
                           ns_uri_string, cont, FALSE)
         ELSE /\ stack' = [stack EXCEPT ![d] = cont]
              /\ ev' = [EvNone EXCEPT !.op = "rootns"]
              /\ UNCHANGED <<chain, phase, fetched>>
  /\ UNCHANGED other_vars

\* Lines 972-1003: profile_uris gets the root namespace URI (or NULL) at
\* index 0, and the head profile attribute is matched.
ProfileMatch ==
  /\ phase = "running"
  /\ top.pc = "profile_match"
  /\ chain' = [chain EXCEPT ![d].profile_uris = Append(@, chain[d].root_ns_uri)]
  /\ stack' = [stack EXCEPT ![d] =
                 [top EXCEPT !.pc = "profiles", !.i = 0,
                             !.result = raptor_grddl_run_xpath_match_profile(chain[d].doc.profiles)]]
  /\ ev' = [EvNone EXCEPT !.op = "profile_match"]
  /\ UNCHANGED <<phase, fetched>>
  /\ UNCHANGED other_vars

\* Lines 1004-1018: each head profile URI is processed recursively, then the
\* URIs are joined to profile_uris.
Profiles ==
  /\ phase = "running"
  /\ top.pc = "profiles"
  /\ IF top.i < Len(top.result)
     THEN RunRecursive(chain, top.result[top.i + 1], [top EXCEPT !.i = top.i + 1], TRUE)
     ELSE /\ chain' = [chain EXCEPT ![d].profile_uris = @ \o top.result]
          /\ stack' = [stack EXCEPT ![d] = [top EXCEPT !.pc = "match", !.result = <<>>]]
          /\ ev' = [EvNone EXCEPT !.op = "profiles_joined"]
          /\ UNCHANGED <<phase, fetched>>
  /\ UNCHANGED other_vars

\* Lines 1022-1049: the match table; what it finds is joined to
\* doc_transform_uris, and a failed parser returns 1.
Match ==
  /\ phase = "running"
  /\ top.pc = "match"
  /\ chain' = [chain EXCEPT ![d].doc_transform_uris = @ \o chain[d].doc.transforms,
                            ![d].appended = @ \o chain[d].doc.transforms]
  /\ stack' = [stack EXCEPT ![d] =
                 IF chain[d].failed THEN [top EXCEPT !.pc = "return", !.ret = 1]
                 ELSE [top EXCEPT !.pc = "drain", !.i = 0]]
  /\ ev' = [EvNone EXCEPT !.op = "match"]
  /\ UNCHANGED <<phase, fetched>>
  /\ UNCHANGED other_vars

(***************************************************************************)
(* The drain loop (lines 1052-1064) and the application of one transform.  *)
(***************************************************************************)
\* The loop test of line 1053 with loop counter i.
DrainContinues(i, doc_transform_uris) == i < Len(doc_transform_uris)

\* An engine that leaves no output alone.
IgnoresNothing(parser_name) == FALSE

\* Line 528: the guessed name that makes the engine leave the output alone.
IgnoresGuess(parser_name) == parser_name = "grddl"

\* Lines 1059-1060: what the loop does after a transform returned ret.
AfterTransform(frame, ret) ==
  IF ret # 0 THEN [frame EXCEPT !.pc = "return", !.ret = ret]
  ELSE [frame EXCEPT !.pc = "drain", !.i = frame.i + 1, !.ret = ret]

\* One pass of the loop body: the front URI is taken off the queue and
\* raptor_grddl_run_grddl_transform_uri runs on it, up to the point where the
\* internal parser is started on the serialized output.
DrainApply ==
  /\ phase = "running"
  /\ top.pc = "drain"
  /\ DrainContinues(top.i, chain[d].doc_transform_uris)
  /\ Len(chain[d].applied) < MaxApplied
  /\ LET uri == Head(chain[d].doc_transform_uris)
         ch0 == [chain EXCEPT ![d].doc_transform_uris = Tail(@),
                              ![d].applied = Append(@, uri),
                              ![d].pushed = 0]
         evt == [EvNone EXCEPT !.op = "transform", !.uri = uri]
         done(ch, ret, e) ==
           /\ chain' = ch
           /\ stack' = [stack EXCEPT ![d] = AfterTransform(top, ret)]
           /\ ev' = [e EXCEPT !.ret = ret]
           /\ phase' = phase
     IN  IF FetchRefused(chain[d])
         THEN done(ch0, 1, evt)
         ELSE \E oc \in TransformOutcomes :
           LET evn == [evt EXCEPT !.net = <<uri>>]
           IN
           CASE oc \in {"fetch_failed", "sheet_error", "apply_error"} ->
                  done(ch0, 1, [evn EXCEPT !.errors = 1])
             [] oc = "empty" ->
                  done(ch0, 0, [evn EXCEPT !.warnings = 1])
             [] oc = NULL ->
                  \* raptor_guess_parser_name gives no name and line 528
                  \* calls strcmp(NULL, "grddl"): the behaviour is undefined
                  \* from here on, and the run is followed no further.
                  /\ chain' = ch0
                  /\ phase' = "crashed"
                  /\ ev' = [evn EXCEPT !.guess = NULL]
                  /\ stack' = stack
             [] OTHER ->
                  IF IgnoresGuess(oc)
                  THEN done(ch0, 0, [evn EXCEPT !.guess = oc])
                  ELSE \E created \in BOOLEAN :
                    LET e == raptor_grddl_ensure_internal_parser(ch0, d, oc, created, 1)
                    IN  IF e.ret # 0
                        THEN done(e.chain, e.ret, [evn EXCEPT !.guess = oc, !.errors = 1])
                        ELSE /\ chain' = raptor_start_parse(e.chain, d + 1, chain[d].base_uri)
                             /\ stack' = [stack EXCEPT ![d] = [top EXCEPT !.pc = "emit", !.n = 0]]
                             /\ ev' = [evn EXCEPT !.guess = oc, !.fed = oc, !.constructed = e.constructed]
                             /\ phase' = phase
  /\ UNCHANGED fetched
  /\ UNCHANGED other_vars

\* The loop test fails: line 1064.
DrainExit ==
  /\ phase = "running"
  /\ top.pc = "drain"
  /\ ~DrainContinues(top.i, chain[d].doc_transform_uris)
  /\ stack' = [stack EXCEPT ![d] = [top EXCEPT !.pc = "return"]]
  /\ ev' = [EvNone EXCEPT !.op = "drain_exit"]
  /\ UNCHANGED <<chain, phase, fetched>>
  /\ UNCHANGED other_vars

\* The internal parser, parsing the serialized output, calls its statement
\* handler with one statement.  When the statement has a blank node
\* (blank), the parser first gets an identifier for it from
\* raptor_generate_id, that is from raptor_default_generate_id_handler
\* (raptor_parse.c lines 1423-1460): id=++base on its own handle.  The
\* user's handler, when the statement reaches it, may call
\* raptor_parse_abort on the user's parser.
Emit ==
  /\ phase = "running"
  /\ top.pc = "emit"
  /\ top.n < MaxTriples
  /\ \E statement \in Triples,
        blank \in IF chain[d + 1].default_generate_id_handler_base < MaxIds
                  THEN BOOLEAN ELSE {FALSE} :
       LET id == chain[d + 1].default_generate_id_handler_base + 1
           ch0 == IF blank
                  THEN [chain EXCEPT ![d + 1].default_generate_id_handler_base = id,
                                     ![1].issued = @ \cup {id}]
                  ELSE chain
           r == CallStatementHandler(ch0, chain[d + 1].statement_handler,
                                     chain[d + 1].user_data, statement)
       IN  /\ \E abort \in IF r.out # <<>> /\ ~chain[1].failed THEN BOOLEAN ELSE {FALSE} :
                chain' = IF abort THEN [r.chain EXCEPT ![1].failed = TRUE] ELSE r.chain
           /\ ev' = [EvNone EXCEPT !.op = "emit", !.emitted = statement,
                                   !.delivered = r.out,
                                   !.genid = IF blank THEN id ELSE 0]
  /\ stack' = [stack EXCEPT ![d] = [top EXCEPT !.n = top.n + 1]]
  /\ UNCHANGED <<phase, fetched>>
  /\ UNCHANGED other_vars

\* The output is parsed to its end: raptor_grddl_run_grddl_transform_doc
\* returns the 0 of raptor_grddl_ensure_internal_parser.
EmitEnd ==
  /\ phase = "running"
  /\ top.pc = "emit"
  /\ stack' = [stack EXCEPT ![d] = AfterTransform(top, 0)]
  /\ ev' = [EvNone EXCEPT !.op = "transform_done", !.ret = 0]
  /\ UNCHANGED <<chain, phase, fetched>>
  /\ UNCHANGED other_vars

\* raptor_grddl_parse_chunk returns (ret != 0) to its caller: the user, or
\* raptor_grddl_run_recursive, which goes on in the activation below.
Return ==
  /\ phase = "running"
  /\ top.pc = "return"
  /\ stack' = SubSeq(stack, 1, d - 1)
  /\ phase' = IF d = 1 THEN "done" ELSE phase
  /\ ev' = [EvNone EXCEPT !.op = "return", !.ret = top.ret]
  /\ UNCHANGED <<chain, fetched>>
  /\ UNCHANGED other_vars

Next ==
  \/ ParseChunk
  \/ ParseChunkEnd
  \/ FreeParser
  \/ RootNs
  \/ ProfileMatch
  \/ Profiles
  \/ Match
  \/ DrainApply
  \/ DrainExit
  \/ Emit
  \/ EmitEnd
  \/ Return

Spec == Init /\ [][Next]_vars

(***************************************************************************)
(* raptor_grddl_run_grddl_transform_doc from the applied stylesheet to the *)
(* call of raptor_guess_parser_name (lines 475-524), on its own.           *)
(***************************************************************************)
\* Values of <xsl:output method> and <xsl:output media-type>; NULL is an
\* attribute the stylesheet does not have.
Methods == {NULL, "text", "xml", "html", "xhtml", "json"}
MediaTypes ==
  {NULL, "application/xml", "application/rdf+xml", "text/plain", "text/html", "text/turtle"}

\* A stylesheet that keeps the method it declares.
DeclaredMethod(res_html, method) == method

\* Lines 475-480: the method after the look at the type of the result.
ForcedMethod(res_html, method) == IF res_html THEN "html" ELSE method

\* Lines 496-509: the media type after the inference from the method.
InferredMediaType(method, mediaType) ==
  IF mediaType = NULL /\ method # NULL
  THEN CASE method = "text" -> "text/plain"
         [] method = "xml" -> "application/xml"
         [] method = "html" -> "text/html"
         [] OTHER -> NULL
  ELSE mediaType

\* Lines 514-522: XML of no stated kind, and no information at all, is taken
\* to be RDF/XML.
AssumedMediaType(mediaType) ==
  IF mediaType = NULL \/ mediaType = "application/xml"
  THEN "application/rdf+xml"
  ELSE mediaType

\* A stylesheet has been applied: res is the result, input what the
\* stylesheet declared, doc_txt_len the length of the serialized result.
SheetInit ==
  /\ chain = <<>>
  /\ stack = <<>>
  /\ phase = "idle"
  /\ fetched = [u \in FetchURIs |-> 0]
  /\ ev = EvNone
  /\ parsers = <<>>
  /\ regev = RegNone
  /\ rdf_parser = NoHandle
  /\ hev = HevNone
  /\ nstack = <<>>
  /\ qev = QevNone
  /\ \E res_html \in BOOLEAN, method \in Methods, mediaType \in MediaTypes,
        doc_txt_len \in 0..1 :
       sheet = [pc |-> "applied", res_html |-> res_html,
                input |-> [method |-> method, mediaType |-> mediaType],
                method |-> method, mediaType |-> mediaType,
                doc_txt_len |-> doc_txt_len, warnings |-> 0, mime_type |-> NULL]

\* Lines 475-489: the method is set for an HTML result, the result is
\* serialized, and an empty result ends the transform with a warning.
SaveResult ==
  /\ sheet.pc = "applied"
  /\ sheet' = [sheet EXCEPT
                 !.method = ForcedMethod(sheet.res_html, sheet.method),
                 !.pc = IF sheet.doc_txt_len = 0 THEN "cleanup" ELSE "saved",
                 !.warnings = IF sheet.doc_txt_len = 0 THEN 1 ELSE 0]
  /\ UNCHANGED sheet_others

\* Lines 496-522.
InferMediaType ==
  /\ sheet.pc = "saved"
  /\ sheet' = [sheet EXCEPT
                 !.mediaType = AssumedMediaType(InferredMediaType(sheet.method, sheet.mediaType)),
                 !.pc = "inferred"]
  /\ UNCHANGED sheet_others

\* Lines 523-524: raptor_guess_parser_name(NULL, sheet->mediaType, ...).
GuessParserName ==
  /\ sheet.pc = "inferred"
  /\ sheet' = [sheet EXCEPT !.mime_type = sheet.mediaType, !.pc = "guessed"]
  /\ UNCHANGED sheet_others

SheetNext ==
  \/ SaveResult
  \/ InferMediaType
  \/ GuessParserName

SheetSpec == SheetInit /\ [][SheetNext]_vars

(***************************************************************************)
(* The list of parser factories of raptor_parse.c: static parsers, line 66.*)
(* A factory is a record of its name and its alias (NULL when it has       *)
(* none); the head of the list is the first element.  RAPTOR_FATAL ends    *)
(* the process: regev.fatal is set and no further operation is made.       *)
(***************************************************************************)
MaxParsers == 3

SyntaxNames == {"a", "b", "c"}
AliasNames == SyntaxNames \cup {"x"}

\* A registration that finds no name registered.
NameRegisteredNever(list, name) == FALSE

\* The loops of lines 137-140 and 203-206: strcmp of name with the name of
\* every factory of the list.
NameRegistered(list, name) == \E i \in 1..Len(list) : list[i].name = name

\* raptor_get_parser_factory, lines 224-250: the index in the list of the
\* factory returned, 0 for NULL.
raptor_get_parser_factory(list, name) ==
  IF name = NULL
  THEN IF list = <<>> THEN 0 ELSE 1
  ELSE LET hits == { i \in 1..Len(list) :
                       \/ list[i].name = name
                       \/ (list[i].alias # NULL /\ list[i].alias = name) }
       IN IF hits = {} THEN 0 ELSE CHOOSE i \in hits : \A j \in hits : i <= j

\* The factories that the test of lines 237-238 accepts for name.
Matching(list, name) ==
  { i \in 1..Len(list) : list[i].name = name \/ (list[i].alias # NULL /\ list[i].alias = name) }

RegistryInit ==
  /\ chain = <<>>
  /\ stack = <<>>
  /\ phase = "idle"
  /\ fetched = [u \in FetchURIs |-> 0]
  /\ ev = EvNone
  /\ sheet = NoSheet
  /\ parsers = <<>>
  /\ regev = RegNone
  /\ rdf_parser = NoHandle
  /\ hev = HevNone
  /\ nstack = <<>>
  /\ qev = QevNone

\* raptor_parser_register_factory(name, ..., factory), lines 117-192.  The
\* registration function factory is called on the new object before it is
\* linked (line 182); cb_alias is the alias it gives the object with
\* raptor_parser_factory_add_alias, NULL when it gives none.
raptor_parser_register_factory ==
  /\ ~regev.fatal
  /\ Len(parsers) < MaxParsers
  /\ \E name \in SyntaxNames, cb_alias \in AliasNames \cup {NULL} :
       LET e == [RegNone EXCEPT !.op = "register", !.name = name, !.alias = cb_alias]
       IN IF NameRegistered(parsers, name)
          THEN /\ regev' = [e EXCEPT !.fatal = TRUE]
               /\ parsers' = parsers
          ELSE IF cb_alias # NULL /\ NameRegistered(parsers, cb_alias)
          THEN /\ regev' = [e EXCEPT !.fatal = TRUE]
               /\ parsers' = parsers
          ELSE /\ regev' = [e EXCEPT !.found = 1]
               /\ parsers' = << [name |-> name, alias |-> cb_alias] >> \o parsers
  /\ UNCHANGED registry_others

\* raptor_parser_factory_add_alias(factory, alias), lines 195-213, on the
\* registered factory parsers[f].
raptor_parser_factory_add_alias ==
  /\ ~regev.fatal
  /\ \E f \in 1..Len(parsers), alias \in AliasNames :
       LET e == [RegNone EXCEPT !.op = "add_alias", !.name = parsers[f].name,
                                !.alias = alias, !.found = f]
       IN IF NameRegistered(parsers, alias)
          THEN /\ regev' = [e EXCEPT !.fatal = TRUE]
               /\ parsers' = parsers
          ELSE /\ regev' = e
               /\ parsers' = [parsers EXCEPT ![f].alias = alias]
  /\ UNCHANGED registry_others

\* A call of raptor_get_parser_factory(name), lines 224-250.
GetParserFactory ==
  /\ ~regev.fatal
  /\ \E name \in AliasNames \cup {NULL} :
       regev' = [RegNone EXCEPT !.op = "get", !.name = name,
                                !.found = raptor_get_parser_factory(parsers, name)]
  /\ parsers' = parsers
  /\ UNCHANGED registry_others

\* raptor_delete_parser_factories, lines 78-98.
raptor_delete_parser_factories ==
  /\ ~regev.fatal
  /\ parsers # <<>>
  /\ parsers' = <<>>
  /\ regev' = [RegNone EXCEPT !.op = "delete"]
  /\ UNCHANGED registry_others

RegistryNext ==
  \/ raptor_parser_register_factory
  \/ raptor_parser_factory_add_alias
  \/ GetParserFactory
  \/ raptor_delete_parser_factories

RegistrySpec == RegistryInit /\ [][RegistryNext]_vars

(***************************************************************************)
(* raptor_guess_parser_name, raptor_parse.c lines 1539-1607, looked at on  *)
(* its own: the list of factories is drawn from the lists a sequence of    *)
(* registrations can build and the function is applied to it.  A C string  *)
(* that the code looks into is a sequence of characters, NoString when the *)
(* pointer is NULL; a string that is only compared is an atom.             *)
(***************************************************************************)
MAX_PARSERS == 10

NoString == << NULL >>

Upper == << "A", "B", "C", "D", "E", "F", "G", "H", "I", "J", "K", "L", "M",
            "N", "O", "P", "Q", "R", "S", "T", "U", "V", "W", "X", "Y", "Z" >>
Lower == << "a", "b", "c", "d", "e", "f", "g", "h", "i", "j", "k", "l", "m",
            "n", "o", "p", "q", "r", "s", "t", "u", "v", "w", "x", "y", "z" >>

\* Line 1561: isupper(c) ? tolower(c) : c.
tolower(c) ==
  IF \E k \in 1..Len(Upper) : Upper[k] = c
  THEN Lower[CHOOSE k \in 1..Len(Upper) : Upper[k] = c]
  ELSE c

\* strrchr(s, c): the index of the last c in s, 0 when there is none.
strrchr(s, c) ==
  LET at == { k \in 1..Len(s) : s[k] = c }
  IN IF at = {} THEN 0 ELSE CHOOSE k \in at : \A j \in at : j <= k

\* strstr(s, t) # NULL.
strstr(s, t) ==
  \E k \in 0..(Len(s) - Len(t)) : \A j \in 1..Len(t) : s[k + j] = t[j]

\* Lines 1551-1565: the lowercased text after the last '.' of identifier.
GuessSuffix(identifier) ==
  IF identifier = NoString THEN NoString
  ELSE LET p == strrchr(identifier, ".")
       IN IF p = 0 THEN NoString
          ELSE [ k \in 1..(Len(identifier) - p) |-> tolower(identifier[p + k]) ]

\* raptor_grddl_parse_recognise_syntax, raptor_grddl.c lines 1068-1090.
raptor_grddl_parse_recognise_syntax(identifier, suffix) ==
  LET s0 == 0
      s1 == IF suffix # NoString /\ suffix = << "x", "h", "t", "m", "l" >> THEN 7 ELSE s0
      s2 == IF suffix # NoString /\ suffix = << "h", "t", "m", "l" >> THEN 2 ELSE s1
  IN IF identifier # NoString /\ strstr(identifier, << "x", "h", "t", "m", "l" >>)
     THEN s2 + 5 ELSE s2

\* Lines 1568 and 1581-1584: -1 for a factory without recognise_syntax,
\* else what its function returns: the GRDDL function, or for another
\* syntax the value f.score.
RecogniseScore(f, identifier, suffix) ==
  IF f.recognise_syntax = NULL THEN -1
  ELSE IF f.recognise_syntax = "grddl"
  THEN raptor_grddl_parse_recognise_syntax(identifier, suffix)
  ELSE f.score

\* A ranking that stores the score as it is returned.
ClampNone(score) == score

\* Line 1590: score < 10 ? score : 10.
Clamp(score) == IF score < 10 THEN score ELSE 10

\* Lines 1570-1578: the tests that end the loop with factory f.
ExactMatch(f, uri, mime_type) ==
  \/ (mime_type # NULL /\ f.mime_type # NULL /\ mime_type = f.mime_type)
  \/ (uri # NULL /\ f.uri_string # NULL /\ uri = f.uri_string)

\* The loop of lines 1567-1594 from the factory at index i (the code's i is
\* i - 1) with the scores stored so far: it ends at a factory ("break"),
\* fatally, or past the last factory ("end").
RECURSIVE GuessLoop(_, _, _, _, _, _)
GuessLoop(list, i, scores, uri, mime_type, identifier) ==
  IF i > Len(list) THEN [kind |-> "end", at |-> 0, scores |-> scores]
  ELSE IF ExactMatch(list[i], uri, mime_type)
  THEN [kind |-> "break", at |-> i, scores |-> scores]
  ELSE IF i - 1 > MAX_PARSERS
  THEN [kind |-> "fatal", at |-> i, scores |-> scores]
  ELSE GuessLoop(list, i + 1,
                 Append(scores, [score |-> Clamp(RecogniseScore(list[i], identifier,
                                                                GuessSuffix(identifier))),
                                 factory |-> i]),
                 uri, mime_type, identifier)

\* Lines 1596-1601: what scores[0] can be after qsort with
\* compare_syntax_score: an entry that no other entry precedes.
SortedFirst(scores) ==
  { k \in 1..Len(scores) : \A j \in 1..Len(scores) : scores[j].score <= scores[k].score }

\* What can stand for a name read through a pointer that was never set.
Garbage == "garbage"

\* The names raptor_guess_parser_name can return with the index of their
\* factory, the number of entries of scores it stored and whether it read
\* scores[0] unset.  With no factory the loop stores nothing, qsort sorts
\* nothing and line 1599 reads scores[0] uninitialized: the build returns
\* NULL or follows the pointer it finds there.  The test of line 1586 lets
\* the index MAX_PARSERS through, so with more factories than that line
\* 1590 writes behind the array and anything can follow.
GuessOutcomes(list, uri, mime_type, identifier) ==
  LET r == GuessLoop(list, 1, <<>>, uri, mime_type, identifier)
      out(name, found, fatal, unset) ==
        [name |-> name, found |-> found, fatal |-> fatal,
         stored |-> Len(r.scores), unset |-> unset]
      wild == IF Len(r.scores) > MAX_PARSERS
              THEN { out(Garbage, 0, FALSE, FALSE) } ELSE {}
  IN wild \cup
     (IF r.kind = "break"
      THEN { out(list[r.at].name, r.at, FALSE, FALSE) }
      ELSE IF r.kind = "fatal"
      THEN { out(NULL, 0, TRUE, FALSE) }
      ELSE IF r.scores = <<>>
      THEN { out(NULL, 0, FALSE, TRUE), out(Garbage, 0, FALSE, TRUE) }
      ELSE { IF r.scores[k].score >= 0
             THEN out(list[r.scores[k].factory].name, r.scores[k].factory, FALSE, FALSE)
             ELSE out(NULL, 0, FALSE, FALSE)
             : k \in SortedFirst(r.scores) })

GuessMimeTypes == {"m", "n"}
GuessURIs == {"u", "v"}
GuessIdentifiers ==
  { NoString,
    << "a", ".", "X", "H", "T", "M", "L" >>,
    << "x", "h", "t", "m", "l", ".", "h", "t", "m", "l" >>,
    << "a", ".", "h", "t", "m", "l" >>,
    << "x", "h", "t", "m", "l", ".", "b", ".", "x", "h", "t", "m", "l" >>,
    << "a", ".", "r", "d", "f" >> }

\* The factory registered in place k with its MIME type, its URI string and
\* its recognise_syntax function.
GuessFactories(k) ==
  { [name |-> <<"a", "b", "c", "d">>[k], alias |-> NULL, mime_type |-> m,
     uri_string |-> u, recognise_syntax |-> r[1], score |-> r[2]] :
      m \in {NULL, "m"}, u \in {NULL, "u"},
      r \in { <<NULL, 0>>, <<"grddl", 0>>, <<"other", 12>> } }

RECURSIVE GuessRegistries(_)
GuessRegistries(n) ==
  IF n = 0 THEN { <<>> }
  ELSE GuessRegistries(n - 1)
       \cup { <<f>> \o l : f \in GuessFactories(n),
                           l \in { x \in GuessRegistries(n - 1) : Len(x) = n - 1 } }

GuessInit ==
  /\ chain = <<>>
  /\ stack = <<>>
  /\ phase = "idle"
  /\ fetched = [u \in FetchURIs |-> 0]
  /\ ev = EvNone
  /\ sheet = NoSheet
  /\ parsers \in GuessRegistries(MaxParsers)
  /\ regev = RegNone
  /\ rdf_parser = NoHandle
  /\ hev = HevNone
  /\ nstack = <<>>
  /\ qev = QevNone

\* The call raptor_guess_parser_name(uri, mime_type, buffer, len, identifier)
\* on the list drawn.
raptor_guess_parser_name ==
  /\ regev.op = "none"
  /\ \E uri \in GuessURIs \cup {NULL}, mime_type \in GuessMimeTypes \cup {NULL},
        identifier \in GuessIdentifiers :
       \E o \in GuessOutcomes(parsers, uri, mime_type, identifier) :
         regev' = [op |-> "guess", name |-> o.name, alias |-> NULL,
                   fatal |-> o.fatal, found |-> o.found, stored |-> o.stored,
                   unset |-> o.unset, uri |-> uri,
                   mime_type |-> mime_type, identifier |-> identifier]
  /\ parsers' = parsers
  /\ UNCHANGED registry_others

GuessNext == raptor_guess_parser_name

GuessSpec == GuessInit /\ [][GuessNext]_vars

\* The same call on the lists that up to MaxTable registrations build, to
\* see what becomes of the table scores[MAX_PARSERS].  The factories of a
\* list are alike: none has a recognise_syntax function, or all have one
\* that returns 12; and the factory at the head of the list or the one at
\* its end may have the MIME type "m".
MaxTable == 12

TableNames == << "p1", "p2", "p3", "p4", "p5", "p6", "p7", "p8", "p9", "p10",
                 "p11", "p12", "p13", "p14" >>

GuessTableRegistries ==
  { [ k \in 1..n |->
        [name |-> TableNames[k], alias |-> NULL,
         mime_type |-> IF (k = 1 /\ m = "head") \/ (k = n /\ m = "end") THEN "m" ELSE NULL,
         uri_string |-> NULL, recognise_syntax |-> r[1], score |-> r[2]] ] :
    n \in 0..MaxTable, m \in {"none", "head", "end"},
    r \in { <<NULL, 0>>, <<"other", 12>> } }

GuessTableInit ==
  /\ chain = <<>>
  /\ stack = <<>>
  /\ phase = "idle"
  /\ fetched = [u \in FetchURIs |-> 0]
  /\ ev = EvNone
  /\ sheet = NoSheet
  /\ parsers \in GuessTableRegistries
  /\ regev = RegNone
  /\ rdf_parser = NoHandle
  /\ hev = HevNone
  /\ nstack = <<>>
  /\ qev = QevNone

GuessTableSpec == GuessTableInit /\ [][GuessNext]_vars

(***************************************************************************)
(* The feature values of one parser handle, raptor_parse.c: the handle is  *)
(* built by raptor_new_parser and then given any sequence of               *)
(* raptor_set_parser_strict, raptor_set_feature and raptor_get_feature.    *)
(***************************************************************************)
\* The raptor_feature values raptor_set_feature has a case for that does
\* not return -1 (lines 1100-1138), the ones it rejects by name (lines
\* 1140-1144) and a value outside the enumeration.
ParserFeatures ==
  { "SCANNING", "ASSUME_IS_RDF", "ALLOW_NON_NS_ATTRIBUTES", "ALLOW_OTHER_PARSETYPES",
    "ALLOW_BAGID", "ALLOW_RDF_TYPE_RDF_LIST", "NORMALIZE_LANGUAGE", "NON_NFC_FATAL",
    "WARN_OTHER_PARSETYPES", "CHECK_RDF_ID" }
OtherFeatures ==
  { "RELATIVE_URIS", "START_URI", "WRITER_AUTO_INDENT", "WRITER_AUTO_EMPTY",
    "WRITER_INDENT_WIDTH", "UNKNOWN" }
Features == ParserFeatures \cup OtherFeatures
FeatureValues == {-1, 0, 1}
StrictValues == {0, 1, 2}

\* The field of the handle that the case of a parser feature assigns;
\* RAPTOR_FEATURE_ASSUME_IS_RDF has none (lines 1105-1106).
FeatureField(feature) ==
  CASE feature = "SCANNING" -> "feature_scanning_for_rdf_RDF"
    [] feature = "ALLOW_NON_NS_ATTRIBUTES" -> "feature_allow_non_ns_attributes"
    [] feature = "ALLOW_OTHER_PARSETYPES" -> "feature_allow_other_parseTypes"
    [] feature = "ALLOW_BAGID" -> "feature_allow_bagID"
    [] feature = "ALLOW_RDF_TYPE_RDF_LIST" -> "feature_allow_rdf_type_rdf_List"
    [] feature = "NORMALIZE_LANGUAGE" -> "feature_normalize_language"
    [] feature = "NON_NFC_FATAL" -> "feature_non_nfc_fatal"
    [] feature = "WARN_OTHER_PARSETYPES" -> "feature_warn_other_parseTypes"
    [] feature = "CHECK_RDF_ID" -> "feature_check_rdf_id"
    [] OTHER -> NULL

FeatureFields == { FeatureField(f) : f \in ParserFeatures \ {"ASSUME_IS_RDF"} }

\* The handle after RAPTOR_CALLOC, lines 343-358.
ZeroedHandle ==
  [ magic |-> "parser", failed |-> 0,
    feature_scanning_for_rdf_RDF |-> 0, feature_allow_non_ns_attributes |-> 0,
    feature_allow_other_parseTypes |-> 0, feature_allow_bagID |-> 0,
    feature_allow_rdf_type_rdf_List |-> 0, feature_normalize_language |-> 0,
    feature_non_nfc_fatal |-> 0, feature_warn_other_parseTypes |-> 0,
    feature_check_rdf_id |-> 0 ]

\* A preset that leaves the check of rdf:ID off.
StrictPresetNoCheck(h, is_strict) ==
  LET st == IF is_strict # 0 THEN 1 ELSE 0
  IN [h EXCEPT !.feature_scanning_for_rdf_RDF = 0,
               !.feature_allow_non_ns_attributes = 1 - st,
               !.feature_allow_other_parseTypes = 1 - st,
               !.feature_allow_bagID = 1 - st,
               !.feature_allow_rdf_type_rdf_List = 0,
               !.feature_normalize_language = 1,
               !.feature_non_nfc_fatal = st,
               !.feature_warn_other_parseTypes = 1 - st,
               !.feature_check_rdf_id = 0]

\* raptor_set_parser_strict(h, is_strict), lines 1288-1304.
StrictPreset(h, is_strict) ==
  LET st == IF is_strict # 0 THEN 1 ELSE 0
  IN [h EXCEPT !.feature_scanning_for_rdf_RDF = 0,
               !.feature_allow_non_ns_attributes = 1 - st,
               !.feature_allow_other_parseTypes = 1 - st,
               !.feature_allow_bagID = 1 - st,
               !.feature_allow_rdf_type_rdf_List = 0,
               !.feature_normalize_language = 1,
               !.feature_non_nfc_fatal = st,
               !.feature_warn_other_parseTypes = 1 - st,
               !.feature_check_rdf_id = 1]

\* A raptor_set_feature that stores the value before it looks at its sign.
SetFeatureStoresFirst(h, feature, value) ==
  IF feature \notin ParserFeatures THEN [ret |-> -1, h |-> h]
  ELSE [ret |-> IF value < 0 THEN -1 ELSE 0,
        h |-> IF feature = "ASSUME_IS_RDF" THEN h
              ELSE [h EXCEPT ![FeatureField(feature)] = value]]

\* raptor_set_feature(h, feature, value), lines 1094-1151: the value
\* returned and the handle afterwards.
SetFeature(h, feature, value) ==
  IF value < 0 THEN [ret |-> -1, h |-> h]
  ELSE IF feature \notin ParserFeatures THEN [ret |-> -1, h |-> h]
  ELSE IF feature = "ASSUME_IS_RDF" THEN [ret |-> 0, h |-> h]
  ELSE [ret |-> 0, h |-> [h EXCEPT ![FeatureField(feature)] = value]]

\* raptor_get_feature(h, feature), lines 1193-1253.
GetFeature(h, feature) ==
  IF feature \notin ParserFeatures THEN -1
  ELSE IF feature = "ASSUME_IS_RDF" THEN 0
  ELSE IF h[FeatureField(feature)] # 0 THEN 1 ELSE 0

\* raptor_new_parser, lines 335-372, with a factory whose init succeeds and
\* sets no feature, as raptor_grddl_parse_init does.
HandleInit ==
  /\ chain = <<>>
  /\ stack = <<>>
  /\ phase = "idle"
  /\ fetched = [u \in FetchURIs |-> 0]
  /\ ev = EvNone
  /\ sheet = NoSheet
  /\ parsers = <<>>
  /\ regev = RegNone
  /\ rdf_parser = StrictPreset(ZeroedHandle, 0)
  /\ hev = [op |-> "new", feature |-> NULL, value |-> 0, ret |-> 0, before |-> ZeroedHandle]
  /\ nstack = <<>>
  /\ qev = QevNone

raptor_set_parser_strict ==
  /\ \E is_strict \in StrictValues :
       /\ rdf_parser' = StrictPreset(rdf_parser, is_strict)
       /\ hev' = [op |-> "strict", feature |-> NULL, value |-> is_strict, ret |-> 0,
                  before |-> rdf_parser]
  /\ UNCHANGED handle_others

raptor_set_feature ==
  /\ \E feature \in Features, value \in FeatureValues :
       LET r == SetFeature(rdf_parser, feature, value)
       IN /\ rdf_parser' = r.h
          /\ hev' = [op |-> "set", feature |-> feature, value |-> value, ret |-> r.ret,
                     before |-> ZeroedHandle]
  /\ UNCHANGED handle_others

raptor_get_feature ==
  /\ \E feature \in Features :
       hev' = [op |-> "get", feature |-> feature, value |-> 0,
               ret |-> GetFeature(rdf_parser, feature), before |-> ZeroedHandle]
  /\ rdf_parser' = rdf_parser
  /\ UNCHANGED handle_others

HandleNext ==
  \/ raptor_set_parser_strict
  \/ raptor_set_feature
  \/ raptor_get_feature

HandleSpec == HandleInit /\ [][HandleNext]_vars

(***************************************************************************)
(* The default generator of identifiers of one parser handle,              *)
(* raptor_parse.c lines 1328-1353 and 1423-1477.  The counter is a C int:  *)
(* INT_MIN..INT_MAX, and arithmetic that leaves that range is undefined.   *)
(***************************************************************************)
MaxCalls == 3

INT_MAX == 2147483647
INT_MIN == -2147483647 - 1

Digits == << "0", "1", "2", "3", "4", "5", "6", "7", "8", "9" >>

\* The digits sprintf writes for %d of a number below 0, without the sign.
RECURSIVE NegDigits(_)
NegDigits(n) ==
  LET dgt == (10 - (n % 10)) % 10
      rest == (n + dgt) \div 10
  IN IF rest = 0 THEN << Digits[dgt + 1] >>
     ELSE Append(NegDigits(rest), Digits[dgt + 1])

RECURSIVE PosDigits(_)
PosDigits(n) ==
  IF n < 10 THEN << Digits[n + 1] >>
  ELSE Append(PosDigits(n \div 10), Digits[(n % 10) + 1])

\* sprintf(buffer, "%d", id), lines 1454-1457.
Decimal(id) == IF id < 0 THEN << "-" >> \o NegDigits(id) ELSE PosDigits(id)

\* Line 1457: the prefix written when the handle has none.
DefaultPrefix == << "g", "e", "n", "i", "d" >>

GenidPrefixes == { NoString, <<>>, << "b" >> }
GenidBases == { INT_MIN, -1, 0, 1, 10, 99, INT_MAX - 1, INT_MAX }
UserBnodeIds == { NoString, << "u" >> }

\* Lines 1335-1336, if(--base<0) base=0: the values that can be stored.
\* For INT_MIN the decrement is undefined: the build wraps to INT_MAX, or
\* tests base < 1 before it subtracts and stores 0.
StoredBase(base) ==
  IF base = INT_MIN THEN { INT_MAX, 0 }
  ELSE IF base - 1 < 0 THEN { 0 } ELSE { base - 1 }

\* Line 1436, id=++base: the values id can have, "trap" when the build
\* stops the process.  For INT_MAX the increment is undefined.
NextId(base) ==
  IF base = INT_MAX THEN { [trap |-> FALSE, id |-> INT_MIN], [trap |-> TRUE, id |-> 0] }
  ELSE { [trap |-> FALSE, id |-> base + 1] }

\* Lines 1443-1457: the identifier written for id.
GenidString(h, id) ==
  IF h.default_generate_id_handler_prefix # NoString
  THEN SubSeq(h.default_generate_id_handler_prefix, 1,
              h.default_generate_id_handler_prefix_length) \o Decimal(id)
  ELSE DefaultPrefix \o Decimal(id)

\* The handle after raptor_new_parser: RAPTOR_CALLOC leaves the generator
\* fields zero.
GenidInit ==
  /\ chain = <<>>
  /\ stack = <<>>
  /\ phase = "idle"
  /\ fetched = [u \in FetchURIs |-> 0]
  /\ ev = EvNone
  /\ sheet = NoSheet
  /\ parsers = <<>>
  /\ regev = RegNone
  /\ rdf_parser = [magic |-> "parser", generate_id_handler |-> NULL,
                   default_generate_id_handler_base |-> 0,
                   default_generate_id_handler_prefix |-> NoString,
                   default_generate_id_handler_prefix_length |-> 0]
  /\ hev = [op |-> "new", ret |-> NoString, user_bnodeid |-> NoString,
            start |-> 1, k |-> 0, trap |-> FALSE]
  /\ nstack = <<>>
  /\ qev = QevNone

\* raptor_set_default_generate_id_parameters(rdf_parser, prefix, base),
\* lines 1328-1353.  hev.start is the first number the counter is to give
\* and hev.k the number of identifiers generated since.
raptor_set_default_generate_id_parameters ==
  /\ ~hev.trap
  /\ \E prefix \in GenidPrefixes, base \in GenidBases :
       \E stored \in StoredBase(base) :
         /\ rdf_parser' = [rdf_parser EXCEPT
              !.default_generate_id_handler_prefix = prefix,
              !.default_generate_id_handler_prefix_length =
                 IF prefix = NoString THEN 0 ELSE Len(prefix),
              !.default_generate_id_handler_base = stored]
         /\ hev' = [op |-> "set_parameters", ret |-> NoString, user_bnodeid |-> NoString,
                    start |-> IF base < 1 THEN 1 ELSE base, k |-> 0, trap |-> FALSE]
  /\ UNCHANGED handle_others

\* raptor_set_generate_id_handler(rdf_parser, user_data, handler), lines
\* 1023-1030.
raptor_set_generate_id_handler ==
  /\ ~hev.trap
  /\ \E handler \in {NULL, "user"} :
       /\ handler # rdf_parser.generate_id_handler
       /\ rdf_parser' = [rdf_parser EXCEPT !.generate_id_handler = handler]
  /\ hev' = [hev EXCEPT !.op = "set_handler", !.ret = NoString, !.user_bnodeid = NoString]
  /\ UNCHANGED handle_others

\* raptor_generate_id(rdf_parser, id_for_bag, user_bnodeid), lines
\* 1466-1477, with raptor_default_generate_id_handler, lines 1423-1460.  A
\* handler of the user returns "h".
raptor_generate_id ==
  /\ ~hev.trap
  /\ hev.k < MaxCalls
  /\ \E user_bnodeid \in UserBnodeIds :
       IF rdf_parser.generate_id_handler # NULL
       THEN /\ rdf_parser' = rdf_parser
            /\ hev' = [hev EXCEPT !.op = "user_handler", !.ret = << "h" >>,
                                  !.user_bnodeid = user_bnodeid]
       ELSE IF user_bnodeid # NoString
       THEN /\ rdf_parser' = rdf_parser
            /\ hev' = [hev EXCEPT !.op = "generate", !.ret = user_bnodeid,
                                  !.user_bnodeid = user_bnodeid]
       ELSE \E n \in NextId(rdf_parser.default_generate_id_handler_base) :
              IF n.trap
              THEN /\ rdf_parser' = rdf_parser
                   /\ hev' = [hev EXCEPT !.op = "generate", !.ret = NoString,
                                         !.user_bnodeid = NoString, !.trap = TRUE]
              ELSE /\ rdf_parser' = [rdf_parser EXCEPT
                                       !.default_generate_id_handler_base = n.id]
                   /\ hev' = [hev EXCEPT !.op = "generate",
                                         !.ret = GenidString(rdf_parser, n.id),
                                         !.user_bnodeid = NoString, !.k = hev.k + 1]
  /\ UNCHANGED handle_others

GenidNext ==
  \/ raptor_set_default_generate_id_parameters
  \/ raptor_set_generate_id_handler
  \/ raptor_generate_id

GenidSpec == GenidInit /\ [][GenidNext]_vars

(***************************************************************************)
(* QNames, raptor_qname.c.  A namespace is a record of its prefix          *)
(* (NoString for the default namespace) and its URI (NoString when it has  *)
(* none); nstack holds the namespaces in the order they were declared and  *)
(* a pointer to a namespace is its index in nstack, 0 for NULL.  A QName   *)
(* is the record of the fields of raptor_qname.  Names, values and URIs    *)
(* are sequences of characters.                                            *)
(***************************************************************************)
MaxNs == 2

Namespaces ==
  { [prefix |-> NoString, uri |-> << "D", "/" >>],
    [prefix |-> NoString, uri |-> NoString],
    [prefix |-> << "p" >>, uri |-> << "U", "#" >>],
    [prefix |-> << "p" >>, uri |-> << "V", "#" >>],
    [prefix |-> << "q" >>, uri |-> NoString] }

RECURSIVE NamespaceStacks(_)
NamespaceStacks(n) ==
  IF n = 0 THEN { <<>> }
  ELSE NamespaceStacks(n - 1)
       \cup { Append(st, ns) : st \in { x \in NamespaceStacks(n - 1) : Len(x) = n - 1 },
                               ns \in Namespaces }

\* The names given to the constructor: with and without a prefix, with a
\* prefix that may be unbound, with an empty local name, with a second
\* colon.
QNameStrings ==
  { <<>>, << "l" >>, << "p", ":", "l" >>, << "p", ":" >>, << "q", ":", "l" >>,
    << "z", ":", "l" >>, << "p", ":", "l", ":", "m" >> }

\* The names given to raptor_qname_string_to_uri.
URIStrings ==
  QNameStrings \cup { NoString, << ":" >>, << ":", "l" >>, << ":", "p", ":", "l" >> }

QNameValues == { NoString, << "v" >> }

\* raptor_namespaces_get_default_namespace: the most recent namespace
\* without a prefix.
raptor_namespaces_get_default_namespace(st) ==
  LET at == { i \in 1..Len(st) : st[i].prefix = NoString }
  IN IF at = {} THEN 0 ELSE CHOOSE i \in at : \A j \in at : j <= i

\* raptor_namespaces_find_namespace: the most recent namespace with the
\* prefix.
raptor_namespaces_find_namespace(st, prefix) ==
  LET at == { i \in 1..Len(st) : st[i].prefix # NoString /\ st[i].prefix = prefix }
  IN IF at = {} THEN 0 ELSE CHOOSE i \in at : \A j \in at : j <= i

\* raptor_namespace_get_uri of the namespace at index ns.
raptor_namespace_get_uri(st, ns) == st[ns].uri

\* raptor_new_uri_from_uri_local_name: the URI followed by the local name.
raptor_new_uri_from_uri_local_name(uri, local_name) == uri \o local_name

\* The loops of lines 131-132 and 452-453: the index of the first ':' of
\* name, Len(name) + 1 when it has none.
FirstColon(name) ==
  LET at == { k \in 1..Len(name) : name[k] = ":" }
  IN IF at = {} THEN Len(name) + 1 ELSE CHOOSE k \in at : \A j \in at : k <= j

\* The zeroed raptor_qname of line 110.
ZeroedQName ==
  [ value |-> NoString, value_length |-> 0, local_name |-> NoString,
    local_name_length |-> 0, nspace |-> 0, uri |-> NoString ]

\* A constructor that gives every name without a prefix the default
\* namespace.
DefaultForAttributesToo(st, value) == raptor_namespaces_get_default_namespace(st)

\* Lines 149-162: the namespace of a name without a prefix.
UnprefixedNamespace(st, value) ==
  IF value = NoString THEN raptor_namespaces_get_default_namespace(st) ELSE 0

\* raptor_new_qname(st, name, value), lines 94-214: the QName made and the
\* number of errors logged.
NewQName(st, name, value) ==
  LET p == FirstColon(name)
      q0 == [ZeroedQName EXCEPT !.value = value,
                                !.value_length = IF value = NoString THEN 0 ELSE Len(value)]
      local == IF p > Len(name) THEN name ELSE SubSeq(name, p + 1, Len(name))
      ns == IF p > Len(name) THEN UnprefixedNamespace(st, value)
            ELSE raptor_namespaces_find_namespace(st, SubSeq(name, 1, p - 1))
      q1 == [q0 EXCEPT !.local_name = local, !.local_name_length = Len(local), !.nspace = ns]
      uri == IF ns # 0 /\ Len(local) # 0 /\ raptor_namespace_get_uri(st, ns) # NoString
             THEN raptor_new_uri_from_uri_local_name(raptor_namespace_get_uri(st, ns), local)
             ELSE NoString
  IN [ q |-> [q1 EXCEPT !.uri = uri],
       errors |-> IF p <= Len(name) /\ ns = 0 THEN 1 ELSE 0 ]

\* raptor_new_qname_from_namespace_local_name(world, ns, local_name, value),
\* lines 231-288.
NewQNameFromNamespace(st, ns, local_name, value) ==
  LET q0 == [ZeroedQName EXCEPT !.value = value,
                                !.value_length = IF value = NoString THEN 0 ELSE Len(value),
                                !.local_name = local_name,
                                !.local_name_length = Len(local_name),
                                !.nspace = ns]
  IN [q0 EXCEPT !.uri =
        IF ns # 0 /\ raptor_namespace_get_uri(st, ns) # NoString
        THEN raptor_new_uri_from_uri_local_name(raptor_namespace_get_uri(st, ns), local_name)
        ELSE NoString]

QNameInit ==
  /\ chain = <<>>
  /\ stack = <<>>
  /\ phase = "idle"
  /\ fetched = [u \in FetchURIs |-> 0]
  /\ ev = EvNone
  /\ sheet = NoSheet
  /\ parsers = <<>>
  /\ regev = RegNone
  /\ rdf_parser = NoHandle
  /\ hev = HevNone
  /\ nstack \in NamespaceStacks(MaxNs)
  /\ qev = QevNone

raptor_new_qname ==
  /\ qev.op = "none"
  /\ \E name \in QNameStrings, value \in QNameValues :
       LET r == NewQName(nstack, name, value)
       IN qev' = [op |-> "new_qname", name |-> name, value |-> value, ns |-> 0,
                  q |-> r.q, errors |-> r.errors]
  /\ nstack' = nstack
  /\ UNCHANGED qname_others

raptor_new_qname_from_namespace_local_name ==
  /\ qev.op = "none"
  /\ \E ns \in 0..Len(nstack), local_name \in { <<>>, << "l" >> }, value \in QNameValues :
       qev' = [op |-> "new_qname_from_namespace", name |-> local_name, value |-> value,
               ns |-> ns, q |-> NewQNameFromNamespace(nstack, ns, local_name, value),
               errors |-> 0]
  /\ nstack' = nstack
  /\ UNCHANGED qname_others

\* raptor_qname_copy(q), lines 299-344: the copies the call can give.
\* Line 339 passes the namespace pointer to raptor_namespace_get_uri as it
\* is; for a QName without namespace that pointer is NULL, and the call
\* either gives no URI or ends the process (crash).
QNameCopy(st, q) ==
  LET c0 == [ZeroedQName EXCEPT
               !.value = IF q.value # NoString THEN SubSeq(q.value, 1, q.value_length)
                         ELSE NoString,
               !.value_length = IF q.value # NoString THEN q.value_length ELSE 0,
               !.local_name = SubSeq(q.local_name, 1, q.local_name_length),
               !.local_name_length = q.local_name_length,
               !.nspace = q.nspace]
  IN IF q.nspace = 0
     THEN { [crash |-> FALSE, c |-> c0], [crash |-> TRUE, c |-> c0] }
     ELSE { [crash |-> FALSE,
             c |-> [c0 EXCEPT !.uri =
                      IF raptor_namespace_get_uri(st, q.nspace) # NoString
                      THEN raptor_new_uri_from_uri_local_name(
                             raptor_namespace_get_uri(st, q.nspace), c0.local_name)
                      ELSE NoString]] }

\* raptor_qname_equal(name1, name2), lines 396-406.
raptor_qname_equal(name1, name2) ==
  IF name1.nspace # name2.nspace THEN 0
  ELSE IF name1.local_name_length # name2.local_name_length THEN 0
  ELSE IF name1.local_name # name2.local_name THEN 0
  ELSE 1

\* raptor_qname_string_to_uri(st, name, name_len) with name_len the length
\* of name, lines 432-500: the URI returned and the number of errors
\* logged.
StringToURI(st, name) ==
  LET n1 == IF name # NoString /\ name # <<>> /\ name[1] = ":" THEN Tail(name) ELSE name
      p == IF name = NoString THEN 0 ELSE FirstColon(n1)
      kind == IF name = NoString THEN "null"
              ELSE IF Len(n1) > 0 /\ p = Len(n1) THEN "namespace"
              ELSE IF p > Len(n1) THEN "unprefixed"
              ELSE "prefixed"
      local == CASE kind = "unprefixed" -> n1
                 [] kind = "prefixed" -> SubSeq(n1, p + 1, Len(n1))
                 [] OTHER -> <<>>
      ns == CASE kind = "null" -> raptor_namespaces_get_default_namespace(st)
              [] kind = "namespace" ->
                   raptor_namespaces_find_namespace(st, SubSeq(n1, 1, Len(n1) - 1))
              [] kind = "unprefixed" -> raptor_namespaces_get_default_namespace(st)
              [] OTHER -> raptor_namespaces_find_namespace(st, SubSeq(n1, 1, p - 1))
  IN [ errors |-> IF ns = 0 THEN 1 ELSE 0,
       uri |-> IF ns # 0 /\ raptor_namespace_get_uri(st, ns) # NoString
               THEN IF Len(local) # 0
                    THEN raptor_new_uri_from_uri_local_name(raptor_namespace_get_uri(st, ns),
                                                            local)
                    ELSE raptor_namespace_get_uri(st, ns)
               ELSE NoString ]

raptor_qname_copy ==
  /\ qev.op \in {"new_qname", "new_qname_from_namespace"}
  /\ \E r \in QNameCopy(nstack, qev.q) :
       qev' = [op |-> "copy", name |-> qev.name, value |-> qev.value, ns |-> qev.ns,
               q |-> qev.q, errors |-> 0, c |-> r.c, crash |-> r.crash]
  /\ nstack' = nstack
  /\ UNCHANGED qname_others

raptor_qname_string_to_uri ==
  /\ qev.op = "none"
  /\ \E name \in URIStrings :
       LET r == StringToURI(nstack, name)
       IN qev' = [op |-> "string_to_uri", name |-> name, value |-> NoString, ns |-> 0,
                  q |-> ZeroedQName, errors |-> r.errors, uri |-> r.uri]
  /\ nstack' = nstack
  /\ UNCHANGED qname_others

QNameNext ==
  \/ raptor_new_qname
  \/ raptor_new_qname_from_namespace_local_name
  \/ raptor_qname_copy
  \/ raptor_qname_string_to_uri

QNameSpec == QNameInit /\ [][QNameNext]_vars

(***************************************************************************)
(* raptor_prefixed_name_check, raptor_qname.c lines 712-868, applied to a  *)
(* name drawn from the sequences of at most MaxNameLen codepoints of       *)
(* CheckAlphabet.  A codepoint is written as the character it is; "U+00B7" *)
(* is the middle dot and "BAD" a byte sequence that is not UTF-8.  A set   *)
(* of flag names stands for the bits of check_bits.                        *)
(***************************************************************************)
MaxNameLen == 3

CheckAlphabet ==
  { "a", "g", "0", "_", "-", ".", ":", "%", "\\", "!", "U+00B7", "BAD" }

RECURSIVE CheckNames(_)
CheckNames(n) ==
  IF n = 0 THEN { <<>> }
  ELSE CheckNames(n - 1)
       \cup { Append(x, c) : x \in { y \in CheckNames(n - 1) : Len(y) = n - 1 },
                             c \in CheckAlphabet }

\* The values of raptor_prefixed_name_check_type, lines 640-645, and one
\* value outside the enumeration.
CheckTypes == { "VARNAME", "QNAME_PREFIX", "QNAME_LOCAL", "BLANK", "OTHER" }

\* Lines 724-747: check_bits of a check type, NoBits for the types that
\* return -1.
NoBits == { "none" }
CheckBits(check_type) ==
  CASE check_type = "VARNAME" -> { "ALLOW_UL_FIRST", "ALLOW_09_FIRST", "ALLOW_EXTRA_UNICODE" }
    [] check_type = "QNAME_PREFIX" ->
         { "ALLOW_DOT_REST", "ALLOW_MINUS_REST", "ALLOW_HEX", "ALLOW_EXTRA_UNICODE" }
    [] check_type = "QNAME_LOCAL" ->
         { "ALLOW_09_FIRST", "ALLOW_DOT_REST", "ALLOW_MINUS_REST", "ALLOW_HEX",
           "ALLOW_COLON", "ALLOW_EXTRA_UNICODE", "ALLOW_BS_ESCAPE" }
    [] check_type = "BLANK" ->
         { "ALLOW_09_FIRST", "ALLOW_DOT_REST", "ALLOW_MINUS_REST", "ALLOW_EXTRA_UNICODE" }
    [] OTHER -> NoBits

\* Lines 774-781: the codepoints accepted after a backslash, as far as
\* CheckAlphabet has them.
EscapeAlphabet == { "_", ".", "-", "!", "%" }

\* raptor_unicode_is_xml11_namestartchar and raptor_unicode_is_xml11_namechar
\* on CheckAlphabet: NameStartChar and NameChar of XML 1.1.
raptor_unicode_is_xml11_namestartchar(c) == c \in { "a", "g", "_", ":" }
raptor_unicode_is_xml11_namechar(c) ==
  c \in { "a", "g", "_", ":", "-", ".", "0", "U+00B7" }

\* A check that accepts any final codepoint.
FinalCheckNone(unichar) == TRUE

\* Lines 856-860: the test of the last codepoint decoded.
FinalCheck(unichar) == unichar # "."

\* One pass of the loop body, lines 765-853, on codepoint c at position pos
\* with the flag escaping: "done" for goto done, else "escaping" when the
\* pass leaves the flag set and "plain" when it leaves it unset.
CheckStep(c, pos, escaping, check_bits) ==
  IF c = "BAD" THEN "done"
  ELSE IF escaping
  THEN IF c \in EscapeAlphabet THEN "plain" ELSE "done"
  ELSE IF c = "\\" THEN "escaping"
  ELSE IF c = ":" THEN IF "ALLOW_COLON" \in check_bits THEN "plain" ELSE "done"
  ELSE IF c = "%" THEN IF "ALLOW_HEX" \in check_bits THEN "plain" ELSE "done"
  ELSE IF pos = 0
  THEN IF c = "0" THEN IF "ALLOW_09_FIRST" \in check_bits THEN "plain" ELSE "done"
       ELSE IF c = "_" THEN IF "ALLOW_UL_FIRST" \in check_bits THEN "plain" ELSE "done"
       ELSE IF ~raptor_unicode_is_xml11_namestartchar(c) THEN "done" ELSE "plain"
  ELSE IF c = "U+00B7"
       THEN IF "ALLOW_EXTRA_UNICODE" \in check_bits THEN "plain" ELSE "done"
       ELSE IF c = "." THEN IF "ALLOW_DOT_REST" \in check_bits THEN "plain" ELSE "done"
       ELSE IF c = "-" THEN IF "ALLOW_MINUS_REST" \in check_bits THEN "plain" ELSE "done"
       ELSE IF ~raptor_unicode_is_xml11_namechar(c) THEN "done" ELSE "plain"

\* The loop of lines 759-854 from position pos, and the final check.
RECURSIVE CheckLoop(_, _, _, _)
CheckLoop(string, pos, escaping, check_bits) ==
  IF pos >= Len(string)
  THEN IF FinalCheck(string[Len(string)]) THEN 1 ELSE 0
  ELSE LET r == CheckStep(string[pos + 1], pos, escaping, check_bits)
       IN IF r = "done" THEN 0
          ELSE CheckLoop(string, pos + 1, r = "escaping", check_bits)

\* raptor_prefixed_name_check(string, length, check_type) with length the
\* length of string.
PrefixedNameCheck(string, check_type) ==
  IF CheckBits(check_type) = NoBits THEN -1
  ELSE IF Len(string) = 0 THEN -1
  ELSE CheckLoop(string, 0, FALSE, CheckBits(check_type))

NameCheckInit ==
  /\ chain = <<>>
  /\ stack = <<>>
  /\ phase = "idle"
  /\ fetched = [u \in FetchURIs |-> 0]
  /\ ev = EvNone
  /\ sheet = NoSheet
  /\ parsers = <<>>
  /\ regev = RegNone
  /\ rdf_parser = NoHandle
  /\ hev = HevNone
  /\ nstack = <<>>
  /\ qev = QevNone

raptor_prefixed_name_check ==
  /\ qev.op = "none"
  /\ \E string \in CheckNames(MaxNameLen), check_type \in CheckTypes :
       qev' = [op |-> "check", name |-> string, check_type |-> check_type,
               ret |-> PrefixedNameCheck(string, check_type)]
  /\ nstack' = nstack
  /\ UNCHANGED qname_others

NameCheckNext == raptor_prefixed_name_check

NameCheckSpec == NameCheckInit /\ [][NameCheckNext]_vars

(***************************************************************************)
(* raptor_parser_exec, raptor_parse.c lines 411-443, on one parser handle  *)
(* built by raptor_new_parser.  A factory is a record of its name, its     *)
(* alias, its context_length and the value its init returns; the context   *)
(* of the handle is a record of its length and of what has been done with  *)
(* it since RAPTOR_CALLOC ("init" after the factory's init, "used" once    *)
(* the parser has been started).                                           *)
(***************************************************************************)
ExecNames == {"grddl", "rdfxml", "raptor", "nosuch", NULL}

\* The lists of factories: the GRDDL factory, whose init returns 0
\* (raptor_grddl.c line 172), and before it a factory with an alias whose
\* init returns 0 or not.
ExecRegistries ==
  { << [name |-> "rdfxml", alias |-> "raptor", context_length |-> 1, init |-> r],
       [name |-> "grddl", alias |-> NULL, context_length |-> 2, init |-> 0] >> :
    r \in {0, 1} }

\* The handle after RAPTOR_FREE(raptor_parser, rdf_parser), line 526.
FreedHandle == [magic |-> "freed"]

\* An exec that leaves the state of the old factory alone.
TerminateOldNever(h) == <<>>

\* Lines 421-422: the factories whose terminate is called on the state the
\* handle has on entry.
TerminateOld(h) == IF h.factory # NULL THEN << h.factory >> ELSE <<>>

\* raptor_parser_exec(h, name) with the list of factories list; allocated
\* says whether RAPTOR_CALLOC of line 427 gives a context.  The result is
\* the value returned, the handle afterwards, the factories whose terminate
\* ran and the factories whose init ran, in the order of the calls.
\* raptor_free_parser (lines 515-526) calls terminate of the factory the
\* handle has by then, which is the new one (line 430).
ParserExec(list, h, name, allocated) ==
  LET f == raptor_get_parser_factory(list, name)
      factory == list[f]
      h1 == [h EXCEPT !.factory = factory.name,
                      !.context = [length |-> factory.context_length, state |-> "init"]]
  IN IF f = 0
     THEN [ret |-> 1, h |-> h, terminated |-> <<>>, inits |-> <<>>]
     ELSE IF ~allocated
     THEN [ret |-> 1, h |-> FreedHandle,
           terminated |-> TerminateOld(h) \o << factory.name >>, inits |-> <<>>]
     ELSE IF factory.init # 0
     THEN [ret |-> 1, h |-> FreedHandle,
           terminated |-> TerminateOld(h) \o << factory.name >>,
           inits |-> << factory.name >>]
     ELSE [ret |-> 0, h |-> h1, terminated |-> TerminateOld(h),
           inits |-> << factory.name >>]

\* raptor_new_parser("grddl"), lines 335-372, followed by the calls that
\* set a feature and the parameters of the default generator of
\* identifiers; the handlers and the base URI are still unset.
ExecInit ==
  /\ chain = <<>>
  /\ stack = <<>>
  /\ phase = "idle"
  /\ fetched = [u \in FetchURIs |-> 0]
  /\ ev = EvNone
  /\ sheet = NoSheet
  /\ parsers \in ExecRegistries
  /\ regev = RegNone
  /\ \E check \in {0, 1}, base \in {0, 5} :
       rdf_parser = [ magic |-> "parser", factory |-> "grddl",
                      context |-> [length |-> 2, state |-> "init"],
                      user_data |-> NO_DATA, statement_handler |-> NULL,
                      feature_check_rdf_id |-> check, base_uri |-> NULL,
                      default_generate_id_handler_base |-> base ]
  /\ hev = [op |-> "new", name |-> "grddl", ret |-> 0, before |-> FreedHandle,
            terminated |-> <<>>, inits |-> << "grddl" >>]
  /\ nstack = <<>>
  /\ qev = QevNone

raptor_parser_exec ==
  /\ rdf_parser.magic = "parser"
  /\ \E name \in ExecNames, allocated \in BOOLEAN :
       LET r == ParserExec(parsers, rdf_parser, name, allocated)
       IN /\ rdf_parser' = r.h
          /\ hev' = [op |-> "exec", name |-> name, ret |-> r.ret, before |-> rdf_parser,
                     terminated |-> r.terminated, inits |-> r.inits]
  /\ UNCHANGED handle_others

\* raptor_set_statement_handler(parser, user_data, handler), lines 994-1000.
raptor_set_statement_handler ==
  /\ rdf_parser.magic = "parser"
  /\ \E user_data \in {USER_DATA, 1}, handler \in {NULL, "user"} :
       rdf_parser' = [rdf_parser EXCEPT !.user_data = user_data,
                                        !.statement_handler = handler]
  /\ hev' = [hev EXCEPT !.op = "set_statement_handler", !.before = rdf_parser,
                        !.terminated = <<>>, !.inits = <<>>]
  /\ UNCHANGED handle_others

\* raptor_start_parse(rdf_parser, uri), lines 458-477: the base URI is
\* replaced and the factory's start works on the context.
ExecStartParse ==
  /\ rdf_parser.magic = "parser"
  /\ \E uri \in {NULL, BaseURI} :
       rdf_parser' = [rdf_parser EXCEPT !.base_uri = uri, !.context.state = "used"]
  /\ hev' = [hev EXCEPT !.op = "start_parse", !.before = rdf_parser,
                        !.terminated = <<>>, !.inits = <<>>]
  /\ UNCHANGED handle_others

ExecNext ==
  \/ raptor_parser_exec
  \/ raptor_set_statement_handler
  \/ ExecStartParse

ExecSpec == ExecInit /\ [][ExecNext]_vars

(***************************************************************************)
(* raptor_grddl_run_xpath_match, raptor_grddl.c lines 732-852, on one      *)
(* attribute node looked at on its own: the value of the attribute is a    *)
(* sequence of characters and the URIs pushed onto the result are records  *)
(* of the base URI and of the string resolved against it.                  *)
(***************************************************************************)
MaxValueLen == 4

ValueAlphabet == { " ", "a", "b" }

RECURSIVE AttributeValues(_)
AttributeValues(n) ==
  IF n = 0 THEN { <<>> }
  ELSE AttributeValues(n - 1)
       \cup { Append(v, c) : v \in { x \in AttributeValues(n - 1) : Len(x) = n - 1 },
                             c \in ValueAlphabet }

MATCH_IS_VALUE_LIST == 1

\* strchr(start, ' ') in the buffer s: the index of the first space at or
\* after start, 0 for NULL.  The terminating NUL of the buffer is at
\* Len(s) + 1.
strchr_space(s, start) ==
  LET at == { k \in start..Len(s) : s[k] = " " }
  IN IF at = {} THEN 0 ELSE CHOOSE k \in at : \A j \in at : k <= j

\* The loop of lines 807-831 from start, for a value without the sentinel
\* that MATCH_IS_PROFILE looks for: the strings handed to
\* raptor_new_uri_relative_to_base, in order.  A start equal to end is
\* skipped (line 812); the string at start runs to the space found or, when
\* there is none, to the NUL.
RECURSIVE ValueListLoop(_, _)
ValueListLoop(s, start) ==
  LET end == strchr_space(s, start)
  IN IF end = 0 THEN << SubSeq(s, start, Len(s)) >>
     ELSE IF start = end THEN ValueListLoop(s, end + 1)
     ELSE << SubSeq(s, start, end - 1) >> \o ValueListLoop(s, end + 1)

\* Lines 800-836 for one attribute node with value uri_string: the URIs
\* pushed onto seq.
MatchAttribute(uri_string, flags) ==
  LET strings == IF flags = MATCH_IS_VALUE_LIST
                 THEN ValueListLoop(uri_string, 1)
                 ELSE << uri_string >>
  IN [ k \in 1..Len(strings) |-> [base_uri |-> BaseURI, uri_string |-> strings[k]] ]

ValueListInit ==
  /\ chain = <<>>
  /\ stack = <<>>
  /\ phase = "idle"
  /\ fetched = [u \in FetchURIs |-> 0]
  /\ ev = EvNone
  /\ sheet = NoSheet
  /\ parsers = <<>>
  /\ regev = RegNone
  /\ rdf_parser = NoHandle
  /\ hev = HevNone
  /\ nstack = <<>>
  /\ qev = QevNone

\* raptor_grddl_run_xpath_match on a document in which the expression
\* selects one attribute.  The value has at least one character: line 791
\* reads the content of the text node under the attribute.
raptor_grddl_run_xpath_match ==
  /\ ev.op = "none"
  /\ \E value \in { v \in AttributeValues(MaxValueLen) : Len(v) > 0 },
          flags \in {0, MATCH_IS_VALUE_LIST} :
       ev' = [op |-> "xpath_match", value |-> value, flags |-> flags,
              seq |-> MatchAttribute(value, flags)]
  /\ UNCHANGED <<chain, stack, phase, fetched>>
  /\ UNCHANGED other_vars

ValueListNext == raptor_grddl_run_xpath_match

ValueListSpec == ValueListInit /\ [][ValueListNext]_vars

(***************************************************************************)
(* Properties.                                                             *)
(***************************************************************************)
\* C1: recursive discovery terminates because a recursive invocation is
\* entered only for a URI that is not yet visited: the engines that are
\* active at one time process pairwise different URIs, so the chain of
\* invocations is no longer than the number of URIs.
C1_ActiveURIsDistinct ==
  \A i, j \in 1..Len(stack) : i # j => chain[i].base_uri # chain[j].base_uri

\* C2: during one top-level parse no namespace or profile URI is fetched by
\* the recursive invocation more than once.
C2_FetchedAtMostOnce ==
  \A u \in DocURIs : fetched[u] <= 1

\* C3: before the depth-0 parser is freed, the visited-URI sequence that a
\* GRDDL handle refers to has not been freed.
C3_SharedSetLive ==
  phase # "freed" =>
    \A k \in 1..Len(chain) :
      chain[k].name = "grddl" => VisitedOf(chain, k).frees = 0

\* C4: when the terminal chunk of the depth-0 parser returns 0 with the
\* failed flag unset, every URI appended to the transform queue has been
\* applied exactly once, in the order appended, and the queue is empty.
C4_CompleteDrain ==
  (phase = "done" /\ ev.op = "return" /\ ev.ret = 0 /\ ~chain[1].failed) =>
    /\ chain[1].applied = chain[1].appended
    /\ chain[1].doc_transform_uris = <<>>

\* C5: a transform URI the relay enqueued while a transform was applied has
\* been applied when the terminal chunk of the depth-0 parser returns 0 with
\* the failed flag unset.  The URI "c" enters the queue of the depth-0
\* parser only through the relay.
C5_RelayedApplied ==
  (phase = "done" /\ ev.op = "return" /\ ev.ret = 0 /\ ~chain[1].failed) =>
    ("c" \in SeqToSet(chain[1].appended) => "c" \in SeqToSet(chain[1].applied))

\* C6: every statement an inner parser emits reaches the user's statement
\* handler, with the user's user data, exactly once before the next
\* statement is emitted, whatever the depth of the engine and whether or
\* not the relay matched it.
C6_RelayTransparency ==
  ev.op = "emit" =>
    ev.delivered = <<[user_data |-> USER_DATA, statement |-> ev.emitted]>>

\* A statement that the relay of a child engine matches is emitted below
\* that child engine and delivered.
C6_Witness ==
  /\ ev.op = "emit"
  /\ Len(stack) >= 2
  /\ ev.delivered # <<>>
  /\ chain[Len(stack)].profile_uris # <<>>
  /\ chain[Len(stack)].profile_uris[1] = ev.emitted.subject
  /\ ev.emitted.predicate = namespace_transformation_uri
  /\ ev.emitted.object_type = "RESOURCE"

\* C7: when an inner parser emits a statement, the transform queue of an
\* engine the statement is relayed through grows, by copies of the object
\* URI at its back, if and only if subject, predicate and object are
\* resources and for some index i with a non-null entry the subject equals
\* profile_uris[i] and the predicate is namespaceTransformation for i = 0 or
\* profileTransformation for i >= 1; no other queue changes.
C7_RelayMatchRule ==
  [][ ev'.op = "emit" =>
        \A k \in 1..Len(chain) :
          LET st == ev'.emitted
              old == chain[k].doc_transform_uris
              new == chain'[k].doc_transform_uris
              pu == chain[k].profile_uris
              matches ==
                /\ st.subject_type = "RESOURCE"
                /\ st.predicate_type = "RESOURCE"
                /\ st.object_type = "RESOURCE"
                /\ \E i \in 0..(Len(pu) - 1) :
                     /\ pu[i + 1] # NULL
                     /\ st.subject = pu[i + 1]
                     /\ st.predicate = IF i = 0 THEN namespace_transformation_uri
                                        ELSE profile_transformation_uri
          IN  IF k <= Len(stack) /\ matches
              THEN /\ Len(new) > Len(old)
                   /\ SubSeq(new, 1, Len(old)) = old
                   /\ \A j \in (Len(old) + 1)..Len(new) : new[j] = st.object
              ELSE new = old ]_vars

\* A statement that matches a head profile URI at an index >= 1 has been
\* relayed and its object is in the queue.
C7_Witness ==
  /\ ev.op = "emit"
  /\ ev.emitted.predicate = profile_transformation_uri
  /\ ev.emitted.object_type = "RESOURCE"
  /\ \E i \in 2..Len(chain[1].profile_uris) :
       chain[1].profile_uris[i] = ev.emitted.subject
  /\ chain[1].doc_transform_uris # <<>>
  /\ chain[1].doc_transform_uris[Len(chain[1].doc_transform_uris)] = ev.emitted.object

\* C8: no inner parser named "grddl" is started on the output of a
\* transform; when the guess for the output is "grddl" the transform ends
\* with no parser constructed, no statement emitted and no failure reported.
C8_NoSelfRecursion ==
  /\ ev.fed # "grddl"
  /\ (ev.op = "transform" /\ ev.guess = "grddl") =>
       /\ ~ev.constructed
       /\ ev.errors = 0
       /\ ev.ret = 0
       /\ stack[Len(stack)].pc = "drain"

\* A transform whose output is guessed to be "grddl" has been applied.
C8_Witness ==
  /\ ev.op = "transform"
  /\ ev.guess = "grddl"
  /\ ev.net # <<>>

\* C9: while NO_NET is set on the handle the user parses with, no step
\* initiates a network fetch.
C9_NoNetNoFetch ==
  chain[1].no_net => ev.net = <<>>

\* C10: after a transform failed with the failed flag unset and URIs still
\* in the queue, the engine goes on with the drain loop.
C10_FailureIsolation ==
  (/\ ev.op = "transform"
   /\ ev.errors = 1
   /\ ~chain[1].failed
   /\ ~chain[Len(stack)].failed
   /\ chain[Len(stack)].doc_transform_uris # <<>>) =>
     stack[Len(stack)].pc = "drain"

\* C11: a transform whose stylesheet fetch is refused because NO_NET is set
\* on the handle has the error callback called.  A transform step that
\* initiated no fetch is one whose fetch was refused.
C11_RefusalReported ==
  (/\ ev.op = "transform"
   /\ chain[Len(stack)].no_net
   /\ ev.net = <<>>) =>
     ev.errors >= 1

\* C12: once the failed flag of the user's handle is set, the drain loop of
\* the depth-0 engine takes no further URI from the queue.
C12_AbortStopsDrain ==
  (ev.op = "transform" /\ Len(stack) = 1) => ~chain[1].failed

\* C13: a transform with empty output gives one warning and no error,
\* constructs and feeds no inner parser, returns 0, and the drain loop goes
\* on to the next URI in the queue when there is one.
C13_EmptyOutputNonFatal ==
  (ev.op = "transform" /\ ev.warnings >= 1) =>
    /\ ev.warnings = 1
    /\ ev.errors = 0
    /\ ~ev.constructed
    /\ ev.fed = NULL
    /\ ev.ret = 0
    /\ stack[Len(stack)].pc = "drain"
    /\ chain[Len(stack)].doc_transform_uris # <<>> =>
         DrainContinues(stack[Len(stack)].i, chain[Len(stack)].doc_transform_uris)

\* C14: a head profile token that resolves to the data-view profile URI is
\* never processed recursively, never fetched, and never in profile_uris.
C14_SentinelDropped ==
  /\ ev.op = "recursive" => ev.uri # DataView
  /\ fetched[DataView] = 0
  /\ \A k \in 1..Len(chain) : DataView \notin SeqToSet(chain[k].profile_uris)

\* C15: in every engine that has finished discovery, profile_uris has at
\* least one entry, entry 0 is the root namespace URI of the engine's
\* document (NULL when there is none or it is on the ignore list), and the
\* entries from index 1 on are the document's head profile URIs in order.
C15_ProfileIndexing ==
  \A k \in 1..Len(stack) :
    stack[k].pc \in {"match", "drain", "emit", "return"} =>
      LET pu == chain[k].profile_uris
          dc == chain[k].doc
      IN  /\ Len(pu) >= 1
          /\ pu[1] = (IF dc.ns \in grddl_namespace_uris_ignore_list THEN NULL ELSE dc.ns)
          /\ SubSeq(pu, 2, Len(pu)) = dc.profiles

\* C16: the MIME type handed to raptor_guess_parser_name is the media type
\* the stylesheet reports, or when it reports none the one inferred from
\* its method (text, xml, html; html for an HTML result), with none and
\* application/xml replaced by application/rdf+xml.
C16_MimeInference ==
  sheet.pc = "guessed" =>
    LET method == IF sheet.res_html THEN "html" ELSE sheet.input.method
        reported == sheet.input.mediaType
        inferred ==
          IF reported # NULL THEN reported
          ELSE IF method = "text" THEN "text/plain"
          ELSE IF method = "xml" THEN "application/xml"
          ELSE IF method = "html" THEN "text/html"
          ELSE NULL
    IN  sheet.mime_type =
          IF inferred = NULL \/ inferred = "application/xml"
          THEN "application/rdf+xml" ELSE inferred

\* An HTML result of a stylesheet that declares method xml and no media
\* type has been handed to the guess as text/html.
C16_Witness ==
  /\ sheet.pc = "guessed"
  /\ sheet.res_html
  /\ sheet.input.method = "xml"
  /\ sheet.input.mediaType = NULL
  /\ sheet.mime_type = "text/html"

C18_FetchFailureIsolated ==
  [][ /\ (ev'.op = "recursive" /\ ev'.errors = 1 /\ ev'.ret = 1) =>
           /\ phase' = "running"
           /\ Len(stack') = Len(stack)
           /\ chain'[Len(stack)].failed = chain[Len(stack)].failed
           /\ stack[Len(stack)].pc = "rootns" =>
                stack'[Len(stack)].pc = "profile_match"
           /\ stack[Len(stack)].pc = "profiles" =>
                /\ stack'[Len(stack)].pc = "profiles"
                /\ stack'[Len(stack)].i = stack[Len(stack)].i + 1
      /\ (ev'.op = "match" /\ ~chain[Len(stack)].failed) =>
           /\ stack'[Len(stack)].pc = "drain"
           /\ stack'[Len(stack)].i = 0
           /\ chain'[Len(stack)].doc_transform_uris =
                chain[Len(stack)].doc_transform_uris \o chain[Len(stack)].doc.transforms
    ]_vars

\* An engine is at the start of its drain loop with a transform in the
\* queue after the fetch of its last head profile URI failed.
C18_Witness ==
  /\ phase = "running"
  /\ stack[Len(stack)].pc = "drain"
  /\ stack[Len(stack)].i = 0
  /\ stack[Len(stack)].ret = 1
  /\ chain[Len(stack)].doc.profiles # <<>>
  /\ chain[Len(stack)].doc_transform_uris # <<>>

\* C19: no two factories of the list have the same name, and a registration
\* of a name that is already registered is fatal and leaves the list as it
\* was.
C19_NamesUnique ==
  /\ [](\A i, j \in 1..Len(parsers) : i # j => parsers[i].name # parsers[j].name)
  /\ [][ (regev'.op = "register" /\ \E i \in 1..Len(parsers) : parsers[i].name = regev'.name)
           => (regev'.fatal /\ parsers' = parsers) ]_vars

\* A registration of a name that is registered has ended fatally.
C19_Witness ==
  /\ regev.op = "register"
  /\ regev.fatal
  /\ \E i \in 1..Len(parsers) : parsers[i].name = regev.name

\* C20: while no operation has been fatal, no two factories have the same
\* alias and a name or alias is matched by at most one factory, so giving
\* a factory the alias of another factory does not succeed.
C20_AliasUnique ==
  ~regev.fatal =>
    /\ \A i, j \in 1..Len(parsers) :
         (i # j /\ parsers[i].alias # NULL) => parsers[i].alias # parsers[j].alias
    /\ \A n \in AliasNames : Cardinality(Matching(parsers, n)) <= 1

\* The factories of the list that match the MIME type or the URI of the
\* last guess exactly.
C21_Exact ==
  { i \in 1..Len(parsers) :
      \/ (regev.mime_type # NULL /\ parsers[i].mime_type = regev.mime_type)
      \/ (regev.uri # NULL /\ parsers[i].uri_string = regev.uri) }

\* The score of factory i for the last guess, treated as min(score, 10).
C21_Score(i) ==
  LET sc == RecogniseScore(parsers[i], regev.identifier, GuessSuffix(regev.identifier))
  IN IF sc > 10 THEN 10 ELSE sc

\* C21: guess returns the first factory of the list whose MIME type or URI
\* string equals the one given; when no factory matches exactly it returns
\* a factory whose score, treated as min(score, 10), is maximal among all
\* factories if that score is not negative, and no name otherwise.
C21_GuessAlgorithm ==
  (regev.op = "guess" /\ ~regev.fatal) =>
    IF C21_Exact # {}
    THEN /\ regev.found \in C21_Exact
         /\ \A i \in C21_Exact : regev.found <= i
         /\ regev.name = parsers[regev.found].name
    ELSE IF \E i \in 1..Len(parsers) : C21_Score(i) >= 0
    THEN /\ regev.found \in 1..Len(parsers)
         /\ \A i \in 1..Len(parsers) : C21_Score(i) <= C21_Score(regev.found)
         /\ regev.name = parsers[regev.found].name
    ELSE regev.name = NULL

\* The same statement for a list with at least one factory.
C21_GuessNonEmpty ==
  parsers # <<>> => C21_GuessAlgorithm

\* The feature values the strict-mode preset gives for is_strict = s.
C22_Preset(s) ==
  /\ rdf_parser.feature_scanning_for_rdf_RDF = 0
  /\ rdf_parser.feature_allow_non_ns_attributes = (IF s THEN 0 ELSE 1)
  /\ rdf_parser.feature_allow_other_parseTypes = (IF s THEN 0 ELSE 1)
  /\ rdf_parser.feature_allow_bagID = (IF s THEN 0 ELSE 1)
  /\ rdf_parser.feature_allow_rdf_type_rdf_List = 0
  /\ rdf_parser.feature_normalize_language = 1
  /\ rdf_parser.feature_non_nfc_fatal = (IF s THEN 1 ELSE 0)
  /\ rdf_parser.feature_warn_other_parseTypes = (IF s THEN 0 ELSE 1)
  /\ rdf_parser.feature_check_rdf_id = 1

\* C22: after set-strict(s) the nine feature values of the handle are the
\* preset for s whatever they were before, and a newly constructed handle
\* has the values of set-strict(false).
C22_StrictPreset ==
  /\ hev.op = "strict" => C22_Preset(hev.value # 0)
  /\ hev.op = "new" => C22_Preset(FALSE)

\* set-strict(true) has been applied to a handle on which set-feature had
\* changed values away from both presets.
C22_Witness ==
  /\ hev.op = "strict"
  /\ hev.value # 0
  /\ hev.before.feature_scanning_for_rdf_RDF = 1
  /\ hev.before.feature_check_rdf_id = 0
  /\ hev.before.feature_non_nfc_fatal = 1
  /\ hev.before.feature_allow_bagID = 1

\* C23: set-feature with a negative value or a feature that is not a parser
\* feature returns non-zero and leaves the handle as it was; with a parser
\* feature and a value that is not negative it returns 0, the feature has
\* the value, and every other feature value is as it was.
C23_SetFeature ==
  [][ hev'.op = "set" =>
        IF hev'.value < 0 \/ hev'.feature \notin ParserFeatures
        THEN hev'.ret # 0 /\ rdf_parser' = rdf_parser
        ELSE /\ hev'.ret = 0
             /\ \A fld \in FeatureFields :
                  rdf_parser'[fld] = IF fld = FeatureField(hev'.feature)
                                     THEN hev'.value ELSE rdf_parser[fld]
    ]_vars

\* set-feature has been refused for a negative value on a parser feature
\* whose value is set.
C23_Witness ==
  /\ hev.op = "set"
  /\ hev.value < 0
  /\ hev.feature = "CHECK_RDF_ID"
  /\ hev.ret # 0
  /\ rdf_parser.feature_check_rdf_id = 1
  /\ rdf_parser.feature_scanning_for_rdf_RDF = 1

\* C24: on a handle without a generate-id handler the k-th identifier
\* generated without a user-supplied id is the prefix ("genid" when none
\* was set) followed by the decimal of start + k - 1, where start is 1 or
\* the base given, a base below 1 meaning 1; a call with a user-supplied id
\* returns that id and leaves the counter as it was.
C24_DefaultGenerator ==
  /\ (hev.op = "generate" /\ hev.user_bnodeid = NoString) =>
       /\ ~hev.trap
       /\ hev.start <= INT_MAX - (hev.k - 1)
       /\ hev.ret =
            (IF rdf_parser.default_generate_id_handler_prefix = NoString
             THEN DefaultPrefix ELSE rdf_parser.default_generate_id_handler_prefix)
            \o Decimal(hev.start + (hev.k - 1))
  /\ (hev.op = "generate" /\ hev.user_bnodeid # NoString) =>
       /\ hev.ret = hev.user_bnodeid
       /\ hev.start <= INT_MAX - hev.k
       /\ rdf_parser.default_generate_id_handler_base = hev.start + hev.k - 1

\* The same statement for a counter that stays within 1..INT_MAX: the
\* base given is not INT_MIN and the counter has not been asked to pass
\* INT_MAX.
C24_WithinInt ==
  (hev.start <= INT_MAX - hev.k /\ rdf_parser.default_generate_id_handler_base < INT_MAX
     /\ rdf_parser.default_generate_id_handler_base = hev.start + hev.k - 1)
  => C24_DefaultGenerator

\* C25: a QName made from a name p:l whose prefix p is bound has the text
\* after the first colon as local name and the most recent binding of p as
\* namespace; a name without a colon has the default namespace when it is
\* an element and no namespace when it is an attribute; and every QName
\* made whose namespace has a URI and whose local name is not empty has
\* the namespace URI followed by the local name as expanded URI.
C25_Construction ==
  /\ qev.op = "new_qname" =>
       LET name == qev.name
           colons == { k \in 1..Len(name) : name[k] = ":" }
       IN IF colons = {}
          THEN /\ qev.q.local_name = name
               /\ qev.q.nspace =
                    (IF qev.value = NoString
                     THEN raptor_namespaces_get_default_namespace(nstack) ELSE 0)
          ELSE LET c == CHOOSE k \in colons : \A j \in colons : k <= j
                   bound == { i \in 1..Len(nstack) : nstack[i].prefix = SubSeq(name, 1, c - 1) }
               IN /\ qev.q.local_name = SubSeq(name, c + 1, Len(name))
                  /\ bound # {} =>
                       /\ qev.q.nspace \in bound
                       /\ \A i \in bound : i <= qev.q.nspace
  /\ qev.op \in {"new_qname", "new_qname_from_namespace"} =>
       /\ qev.q.local_name_length = Len(qev.q.local_name)
       /\ (qev.q.nspace # 0 /\ nstack[qev.q.nspace].uri # NoString
             /\ qev.q.local_name_length > 0) =>
            qev.q.uri = nstack[qev.q.nspace].uri \o qev.q.local_name

\* A QName has been made from p:l:m while p is bound twice: its local name
\* is l:m and its expanded URI that of the later binding followed by l:m.
C25_Witness ==
  /\ qev.op = "new_qname"
  /\ qev.name = << "p", ":", "l", ":", "m" >>
  /\ Len(nstack) = 2
  /\ nstack[1].prefix = << "p" >>
  /\ nstack[2].prefix = << "p" >>
  /\ nstack[1].uri # nstack[2].uri
  /\ qev.q.uri = nstack[2].uri \o << "l", ":", "m" >>

\* C26: a copy that raptor_qname_copy returns for a QName made by either
\* constructor is equal to it under raptor_qname_equal, has the same value, and has an expanded URI
\* exactly when the QName has one, and then the same.
C26_CopyFaithful ==
  (qev.op = "copy" /\ ~qev.crash) =>
    /\ raptor_qname_equal(qev.c, qev.q) = 1
    /\ qev.c.value = qev.q.value
    /\ qev.c.value_length = qev.q.value_length
    /\ qev.c.uri = qev.q.uri

\* The default namespace URI of the stack, NoString when there is none.
C27_DefaultURI ==
  LET at == { i \in 1..Len(nstack) : nstack[i].prefix = NoString }
  IN IF at = {} THEN NoString
     ELSE nstack[CHOOSE i \in at : \A j \in at : j <= i].uri

\* C27: string-to-URI returns the default namespace URI for a null or
\* empty name and for ":"; for a name with a leading ':' the default
\* namespace URI followed by the rest; for "p:" the URI of the namespace
\* bound to p; for every other name the expanded URI the constructor gives
\* the name as an element; and no URI and an error for an unbound prefix.
C27_StringToURI ==
  qev.op = "string_to_uri" =>
    LET name == qev.name
    IN IF name = NoString \/ name = <<>> \/ name = << ":" >>
       THEN qev.uri = C27_DefaultURI
       ELSE IF name[1] = ":"
       THEN qev.uri = (IF C27_DefaultURI = NoString THEN NoString
                       ELSE C27_DefaultURI \o Tail(name))
       ELSE LET colons == { k \in 1..Len(name) : name[k] = ":" }
                bound == { i \in 1..Len(nstack) :
                             colons # {} /\
                             nstack[i].prefix = SubSeq(name, 1, (CHOOSE k \in colons :
                                                                   \A j \in colons : k <= j) - 1) }
            IN /\ (colons # {} /\ bound = {}) => (qev.uri = NoString /\ qev.errors > 0)
               /\ (colons = {Len(name)} /\ bound # {}) =>
                    qev.uri = nstack[CHOOSE i \in bound : \A j \in bound : j <= i].uri
               /\ (colons # {Len(name)}) =>
                    qev.uri = NewQName(nstack, name, NoString).q.uri

\* The same statement without the names that have a colon after a leading
\* ':'.
C27_NoSecondColon ==
  (qev.op = "string_to_uri" /\ qev.name # NoString /\ Len(qev.name) > 1
     /\ qev.name[1] = ":" /\ \E k \in 2..Len(qev.name) : qev.name[k] = ":")
  \/ C27_StringToURI

\* C28: the prefixed-name check returns -1, 0 or 1; a value below 0 for an
\* unknown profile and for an empty name; never 1 for a name whose last
\* codepoint is '.'; and when it accepts a name it accepts every non-empty
\* prefix of it that does not end in '.'.
C28_ResultDomain ==
  qev.op = "check" =>
    /\ qev.ret \in {-1, 0, 1}
    /\ (qev.check_type \notin {"VARNAME", "QNAME_PREFIX", "QNAME_LOCAL", "BLANK"}
          \/ qev.name = <<>>) => qev.ret < 0
    /\ (qev.name # <<>> /\ qev.name[Len(qev.name)] = ".") => qev.ret # 1
    /\ qev.ret = 1 =>
         \A k \in 1..Len(qev.name) :
           qev.name[k] # "." => PrefixedNameCheck(SubSeq(qev.name, 1, k), qev.check_type) = 1

\* A name with '.' in the middle is accepted, and so is its prefix that
\* stops before the '.'.
C28_Witness ==
  /\ qev.op = "check"
  /\ qev.ret = 1
  /\ qev.name = << "a", ".", "g" >>
  /\ qev.check_type = "BLANK"

\* C29: a name that contains a backslash is accepted under the QName-local
\* profile only; under the other profiles it is rejected with 0.
C29_EscapeGated ==
  (qev.op = "check" /\ \E k \in 1..Len(qev.name) : qev.name[k] = "\\") =>
    /\ qev.ret = 1 => qev.check_type = "QNAME_LOCAL"
    /\ qev.check_type \in {"VARNAME", "QNAME_PREFIX", "BLANK"} => qev.ret = 0

\* The codepoints of the name at the positions that follow an unescaped
\* backslash.
C30_Escaped(k) ==
  LET RECURSIVE esc(_)
      esc(j) == j > 1 /\ qev.name[j - 1] = "\\" /\ ~esc(j - 1)
  IN esc(k)

\* C30: in an accepted name every backslash is followed by a codepoint of
\* the escape alphabet, and every '%' stands under a profile with ALLOW_HEX
\* and is followed by two hexadecimal digits.
C30_EscapesComplete ==
  (qev.op = "check" /\ qev.ret = 1) =>
    \A k \in 1..Len(qev.name) :
      /\ (qev.name[k] = "\\" /\ ~C30_Escaped(k)) =>
           (k < Len(qev.name) /\ qev.name[k + 1] \in { "_", ".", "-", "!", "%" })
      /\ (qev.name[k] = "%" /\ ~C30_Escaped(k)) =>
           /\ qev.check_type \in {"QNAME_PREFIX", "QNAME_LOCAL"}
           /\ k + 2 <= Len(qev.name)
           /\ qev.name[k + 1] \in { "a", "0" }
           /\ qev.name[k + 2] \in { "a", "0" }

\* The fields of the handle that raptor_parser_exec is to leave as they
\* were: callbacks, user data, feature flags, base URI, generator state.
C31_UserState(h) ==
  << h.user_data, h.statement_handler, h.feature_check_rdf_id, h.base_uri,
     h.default_generate_id_handler_base >>

\* What a call with a known name does when it goes through.
C31_Installed(f) ==
  /\ hev.ret = 0
  /\ rdf_parser.magic = "parser"
  /\ hev.terminated = << hev.before.factory >>
  /\ rdf_parser.factory = parsers[f].name
  /\ rdf_parser.context = [length |-> parsers[f].context_length, state |-> "init"]
  /\ hev.inits = << parsers[f].name >>
  /\ C31_UserState(rdf_parser) = C31_UserState(hev.before)

C32_Successors(pc) ==
  CASE pc = "rootns" -> {"rootns", "profile_match"}
    [] pc = "profile_match" -> {"profiles"}
    [] pc = "profiles" -> {"profiles", "match"}
    [] pc = "match" -> {"drain", "return"}
    [] pc = "drain" -> {"drain", "emit", "return"}
    [] pc = "emit" -> {"emit", "drain", "return"}
    [] OTHER -> {pc}

C34_DrainTerminates ==
  \A k \in 1..Len(stack) :
    (/\ stack[k].pc = "emit"
     /\ chain[k].doc_transform_uris # <<>>
     /\ Head(chain[k].doc_transform_uris) = chain[k].applied[Len(chain[k].applied)])
    => chain[k].pushed < 2

\* C35: a triple <N> data-view#namespaceTransformation <t> emitted while
\* engine k processes its root namespace N recursively, or a triple
\* <P> data-view#profileTransformation <t> emitted while it processes its
\* head-profile URI P recursively, makes the relay of engine k push t onto
\* the transform queue of engine k.  (An engine whose recursion on the root
\* namespace is running goes on at "profile_match", one whose recursion on
\* a profile URI is running goes on at "profiles"; the URI being processed
\* is the base URI of its child.)
C35_PublishedCaptured ==
  [][ ev'.op = "emit" =>
        \A k \in 1..(Len(stack) - 1) :
          LET st == ev'.emitted
              resources == /\ st.subject_type = "RESOURCE"
                           /\ st.predicate_type = "RESOURCE"
                           /\ st.object_type = "RESOURCE"
              published ==
                \/ /\ stack[k].pc = "profile_match"
                   /\ st.subject = chain[k].root_ns_uri
                   /\ st.predicate = namespace_transformation_uri
                \/ /\ stack[k].pc = "profiles"
                   /\ st.subject = chain[k + 1].base_uri
                   /\ st.predicate = profile_transformation_uri
          IN resources /\ published =>
               /\ Len(chain'[k].doc_transform_uris) > Len(chain[k].doc_transform_uris)
               /\ chain'[k].doc_transform_uris[Len(chain'[k].doc_transform_uris)] = st.object
    ]_vars

\* C36: when raptor_grddl_run_recursive feeds the bytes fetched from a URI
\* to the child engine, the child has just been constructed, or has no XML
\* parser context yet, and its profile_uris and its doc_transform_uris are
\* empty.
C36_FreshChild ==
  [][ ev'.op = "recursive" /\ fetched'[ev'.uri] # fetched[ev'.uri] =>
        LET c == Len(stack) + 1
        IN /\ ev'.constructed \/ ~chain[c].ctxt
           /\ chain'[c].profile_uris = <<>>
           /\ chain'[c].doc_transform_uris = <<>>
    ]_vars

\* C37: raptor_guess_parser_name stores every score at an index below
\* MAX_PARSERS, whatever the number of factories (it ends fatally before it
\* would store one at a higher index), and with no factory registered it
\* returns no name without reading the table.
C37_TableBounds ==
  regev.op = "guess" =>
    /\ regev.stored <= MAX_PARSERS
    /\ (parsers = <<>> => regev.name = NULL /\ ~regev.unset)

\* C38: the default generator gives no number to an inner parser that it
\* has given to an inner parser before in the same top-level parse (all
\* inner parsers have the prefix of the user's handle, so equal numbers are
\* equal identifiers).
C38_IdsDistinct ==
  [][ ev'.op = "emit" /\ ev'.genid # 0 => ev'.genid \notin chain[1].issued ]_vars

\* C39: while the user's handle has not been freed, the prefix the user set
\* on it has not been freed, whatever inner parsers the engine freed or
\* replaced; once the handle is freed the prefix has been freed once.
C39_PrefixOwned ==
  chain[1].default_generate_id_handler_prefix # NULL =>
    IF phase = "freed" THEN chain[1].prefix_frees = 1 ELSE chain[1].prefix_frees = 0

\* The maximal runs of characters other than the space in value from index
\* k on, in order.
RECURSIVE C40_Runs(_, _)
C40_Runs(value, k) ==
  IF k > Len(value) THEN <<>>
  ELSE IF value[k] = " " THEN C40_Runs(value, k + 1)
  ELSE LET stops == { j \in k..Len(value) : value[j] = " " }
           end == IF stops = {} THEN Len(value) + 1
                  ELSE CHOOSE j \in stops : \A i \in stops : j <= i
       IN << SubSeq(value, k, end - 1) >> \o C40_Runs(value, end)

\* C40: the value-list match gives one URI for each maximal run of
\* characters other than the space of the attribute value, in order, and
\* nothing else: no URI made from an empty string, which would be the base
\* URI.
C40_Tokenization ==
  ev.op = "xpath_match" /\ ev.flags = MATCH_IS_VALUE_LIST =>
    LET runs == C40_Runs(ev.value, 1)
    IN /\ Len(ev.seq) = Len(runs)
       /\ \A k \in 1..Len(runs) : ev.seq[k].uri_string = runs[k]

\* The part of C40 that the code keeps: the URIs made from strings that are
\* not empty are the runs, in order.
C40_NonEmptyTokens ==
  ev.op = "xpath_match" /\ ev.flags = MATCH_IS_VALUE_LIST =>
    SelectSeq([ k \in 1..Len(ev.seq) |-> ev.seq[k].uri_string ],
              LAMBDA t : t # <<>>) = C40_Runs(ev.value, 1)

====
